---- MODULE Spec2Model ----
(***************************************************************************)
(* Command dispatcher of the bluetooth-hci host library.                   *)
(*                                                                         *)
(* Two dispatchers live in the repository: HciCmd (src/src/HciCmd.ts),     *)
(* driven by the class Hci that owns it, and the older Hci class with its  *)
(* private send().  An application constructs one of the two; the inputs   *)
(* are command submissions, inbound packets and timer expiries.            *)
(***************************************************************************)
EXTENDS Integers, Sequences, FiniteSets, TLC

\* ------------------------------------------------------------------ bounds
MaxCalls == 2

\* --------------------------------------------------------------- constants
\* HciPacketType
HciCommand == 1
HciAclData == 2
HciEvent   == 4

\* HciEvent codes
EvtCommandComplete == 14
EvtCommandStatus   == 15
EvtDisconnectionComplete == 5
EvtEncryptionChange == 8
EvtNumberOfCompletedPackets == 19
EvtLeMeta == 62
LeEvtConnectionComplete == 1
LeEvtAdvertisingReport == 2
LeEvtConnectionUpdateComplete == 3
LeEvtReadRemoteFeaturesComplete == 4
LeEvtEnhancedConnectionComplete == 10
LeEvtExtendedAdvertisingReport == 13
LeEvtChannelSelectionAlgorithm == 20

\* HciOgf
OgfControlAndBaseband    == 3
OgfInformationParameters == 4
OgfLeController          == 8

\* OCFs of the commands that are submitted here
OcfReset          == 3
OcfReadBdAddr     == 9
OcfReadChannelMap == 21
OcfLeSetExtendedAdvertisingData == 55
OcfLeSetExtendedScanResponseData == 56
OcfLeReadBufferSizeV1 == 2
OcfLeSetAdvertisingParameters == 6
OcfLeSetExtendedAdvertisingParameters == 54
OcfLeSetAdvertisingData == 8
OcfLeSetScanResponseData == 9
OcfLeSetScanEnable == 12
OcfLeSetExtendedScanParameters == 65
OcfLeSetExtendedScanEnable == 66

\* LeScanningPhy
LeScanningPhy1M    == 0
LeScanningPhyCoded == 2
OcfLeReadBufferSizeV2 == 96
OcfLeReadMaximumAdvertisingDataLength == 58

\* HciErrorCode
Success                     == 0
InvalidHciCommandParameters == 18
InvalidCommandParameter     == 18

\* connection handles known to the host (0x000A and 0x000B)
Handles == {10, 11}

\* the absent value (null / undefined) and a present one
Null == << >>
Some(x) == << x >>

\* ------------------------------------------------------------- bit helpers
RECURSIVE BitOr(_, _)
BitOr(a, b) ==
  IF a = 0 THEN b
  ELSE IF b = 0 THEN a
  ELSE ((a % 2) + (b % 2) - ((a % 2) * (b % 2))) + 2 * BitOr(a \div 2, b \div 2)

\* HciOpcode.build: ogf << 10 | ocf
HciOpcodeBuild(ogf, ocf) == BitOr(ogf * 1024, ocf)

\* HciOpcode.expand
HciOpcodeExpand(opcode) == [ogf |-> opcode \div 1024, ocf |-> opcode % 1024]

\* Buffer.readUInt16LE(o) on a byte sequence (offsets are 0-based in the code)
ReadUInt16LE(buf, o) == buf[o + 1] + 256 * buf[o + 2]

\* Buffer.writeUIntLE(v, o, 2) as the two bytes written
UInt16LE(v) == << v % 256, (v \div 256) % 256 >>

\* Buffer.slice(n)
Slice(buf, n) == SubSeq(buf, n + 1, Len(buf))

\* ------------------------------------------------------------------ errors
\* makeParserError(HciParserError.X)
MakeParserError(code) == [kind |-> "parser", error |-> code]

\* makeHciError(status)
MakeHciError(status) == [kind |-> "hci", code |-> status]

\* what resolve(evt) and reject(err) hand to the caller
Resolved(evt) == [kind |-> "ok", evt |-> evt]
Rejected(err) == [kind |-> "rejected", err |-> err]

\* the states of the promise returned by a command call: not yet created,
\* pending, fulfilled, or rejected with an error
NotCalled == [kind |-> "none"]
Pending   == [kind |-> "pending"]
Fulfilled == [kind |-> "ok"]
StateOf(v) == IF v.kind = "ok" THEN Fulfilled ELSE v

\* variant: a promise takes every settlement, the last one wins
SettleLastWins(out, i, v) == [out EXCEPT ![i] = StateOf(v)]

\* resolve()/reject() of the promise of call i: only the first settlement
\* counts.  Settle is the new state of the promises, Handed what reaches
\* the caller (Null when the promise was settled before)
Settle(out, i, v) == IF out[i].kind = "pending" THEN [out EXCEPT ![i] = StateOf(v)] ELSE out
Handed(out, i, v) == IF out[i].kind = "pending" THEN Some(<< i, v >>) ELSE Null

\* the rejections the dispatchers make themselves
BusyError    == Rejected(MakeParserError("Busy"))
TimeoutError == Rejected(MakeParserError("Timeout"))

\* ---------------------------------------------------------------- commands
\* property access on an options object: undefined when the key is absent
Get(obj, key) == IF key \in DOMAIN obj THEN Some(obj[key]) ELSE Null

\* HciCmd.controlAndBaseband / informationParameters / lowEnergy:
\* the Command handed to sendWaitResult
GroupCommand(ogf, params) ==
  [ opcode     |-> HciOpcodeBuild(ogf, params.ocf),
    payload    |-> Get(params, "payload"),
    connHandle |-> Get(params, "connHandle") ]

\* what a function that threw leaves in place of its return value
Threw == Null

\* the errors thrown inside the executor of a command call: the RangeError of
\* Buffer.writeUIntLE / writeUInt8 for a value above 255, and whatever the
\* injected send function throws
RangeError     == [kind |-> "range"]
TransportError == [kind |-> "transport"]

\* variant: the length byte is written modulo 256 instead of throwing
BuildCommandWraps(cmd) ==
  LET payloadLength == IF cmd.payload = Null THEN 0 ELSE Len(cmd.payload[1])
  IN  Some(UInt16LE(cmd.opcode) \o << payloadLength % 256 >>
        \o (IF cmd.payload # Null /\ payloadLength > 0 THEN cmd.payload[1] ELSE << >>))

\* HciCmd.buildCommand: the packet, or Threw when writeUIntLE(payloadLength,
\* o, 1) is out of range
BuildCommand(cmd) ==
  LET payloadLength == IF cmd.payload = Null THEN 0 ELSE Len(cmd.payload[1])
  IN  IF payloadLength > 255 THEN Threw
      ELSE Some(UInt16LE(cmd.opcode) \o << payloadLength >>
             \o (IF cmd.payload # Null /\ payloadLength > 0 THEN cmd.payload[1] ELSE << >>))

\* legacy Hci.buildBuffer: the packet, or Threw when writeUInt8(payloadLength,
\* 2) is out of range
BuildBuffer(cmd) ==
  LET payloadLength == IF cmd.params = Null THEN 0 ELSE Len(cmd.params[1])
  IN  IF payloadLength > 255 THEN Threw
      ELSE Some(UInt16LE(cmd.opcode) \o << payloadLength >>
             \o (IF cmd.params # Null /\ payloadLength > 0 THEN cmd.params[1] ELSE << >>))

\* LeReadChannelMap.inParams(connectionHandle)
LeReadChannelMapInParams(connectionHandle) == UInt16LE(connectionHandle)

\* ------------------------------------------------------------------- state
VARIABLES
  stack,          \* which Hci class the application constructed: "HciCmd" or "legacy"
  onResult,       \* HciCmd.onResult: Null, or the closure of the pending call
  timers,         \* HciCmd: calls whose setTimeout timer is armed
  outcome,        \* HciCmd: state of the promise of each sendWaitResult call
  settled,        \* HciCmd: the call settled by the last step and what it got
  sent,           \* packets handed to HciCmd's send function by the last step
  onCmdComplete,  \* legacy Hci.onCmdComplete: Null, or the closure of the pending call
  cmdOpcode,      \* legacy Hci.cmdOpcode
  legTimers,      \* legacy Hci: calls whose timer is armed
  legOutcome,     \* legacy Hci: state of the promise of each send call
  legSettled,     \* legacy Hci: the call settled by the last step and what it got
  legSent,        \* buffers handed to the legacy sendRaw by the last step
  emitted,        \* notifications handed to subscribers (emit) by the last step
  nCalls,         \* number of commands submitted so far
  timedOut,       \* history: the HciCmd commands whose call was rejected with Timeout
  lastIn,         \* the input handled by the last step
  apiIn,          \* the public method under study and its arguments, Null if none
  apiOut          \* what that method has returned or thrown, Null while it has not

vars == << stack, onResult, timers, outcome, settled, sent,
           onCmdComplete, cmdOpcode, legTimers, legOutcome, legSettled, legSent,
           emitted, nCalls, timedOut, lastIn, apiIn, apiOut >>

\* a handler path that leaves the HciCmd dispatcher / the legacy one alone
CmdIdle == /\ UNCHANGED << onResult, timers, outcome >>
           /\ settled' = Null
           /\ sent' = << >>
LegIdle == /\ UNCHANGED << onCmdComplete, cmdOpcode, legTimers, legOutcome >>
           /\ legSettled' = Null
           /\ legSent' = << >>

\* a step that calls EventEmitter.emit for no subscriber
NoEmit == emitted' = << >>

\* a step of the dispatchers that is not the method under study
ApiIdle == UNCHANGED << apiIn, apiOut >>

Calls == 1 .. MaxCalls

\* ------------------------------------------------------- public API, new Hci
\* Hci.reset
HciReset == GroupCommand(OgfControlAndBaseband, [ocf |-> OcfReset])

\* Hci.readBdAddr
HciReadBdAddr == GroupCommand(OgfInformationParameters, [ocf |-> OcfReadBdAddr])

\* Hci.leReadChannelMap(connectionHandle)
HciLeReadChannelMap(connectionHandle) ==
  GroupCommand(OgfLeController,
               [ ocf              |-> OcfReadChannelMap,
                 connectionHandle |-> connectionHandle,
                 payload          |-> LeReadChannelMapInParams(connectionHandle) ])

\* HciCmd.lowEnergy called directly with the option names HciCmd declares
CmdLowEnergyReadChannelMap(connHandle) ==
  GroupCommand(OgfLeController,
               [ ocf        |-> OcfReadChannelMap,
                 connHandle |-> connHandle,
                 payload    |-> LeReadChannelMapInParams(connHandle) ])

\* the requests an application makes, and the Command each one hands to
\* HciCmd.sendWaitResult
Requests ==
  { << "reset" >>, << "readBdAddr" >> }
    \cup { << "leReadChannelMap", h >> : h \in Handles }
    \cup { << "lowEnergy", h >> : h \in Handles }

CommandOf(req) ==
  CASE req[1] = "reset"            -> HciReset
    [] req[1] = "readBdAddr"       -> HciReadBdAddr
    [] req[1] = "leReadChannelMap" -> HciLeReadChannelMap(req[2])
    [] req[1] = "lowEnergy"        -> CmdLowEnergyReadChannelMap(req[2])

\* the same request on the legacy Hci: the HciCommand handed to Hci.send
LegacyCommandOf(req) ==
  LET c == CommandOf(req) IN [opcode |-> c.opcode, params |-> c.payload]

\* ------------------------------------------------------------------ HciCmd
\* variant: the pending slot is never found occupied
IsBusyNever(slot) == FALSE

\* sendWaitResult, the test of the pending slot
IsBusy(slot) == slot # Null

\* variant: the closure does not compare the opcode of the event
OnResultAnyOpcode(cmd, evt) ==
  IF cmd.connHandle = Null
  THEN IF evt.status # Success
       THEN Some(Rejected(MakeHciError(evt.status)))
       ELSE Some(Resolved(evt))
  ELSE IF "returnParameters" \notin DOMAIN evt THEN Null
  ELSE IF Len(evt.returnParameters) < 2 THEN Null
  ELSE IF cmd.connHandle[1] # ReadUInt16LE(evt.returnParameters, 0) THEN Null
  ELSE IF evt.status # Success
       THEN Some(Rejected(MakeHciError(evt.status)))
       ELSE Some(Resolved(evt))

\* variant: the closure does not compare the connection handle
OnResultAnyHandle(cmd, evt) ==
  IF cmd.opcode # evt.opcode THEN Null
  ELSE IF cmd.connHandle = Null
  THEN IF evt.status # Success
       THEN Some(Rejected(MakeHciError(evt.status)))
       ELSE Some(Resolved(evt))
  ELSE IF "returnParameters" \notin DOMAIN evt THEN Null
  ELSE IF Len(evt.returnParameters) < 2 THEN Null
  ELSE IF evt.status # Success
       THEN Some(Rejected(MakeHciError(evt.status)))
       ELSE Some(Resolved(evt))

\* variant: an event without a connection handle completes the command
OnResultWithoutHandle(cmd, evt) ==
  IF cmd.opcode # evt.opcode THEN Null
  ELSE IF cmd.connHandle = Null
          \/ "returnParameters" \notin DOMAIN evt
          \/ Len(evt.returnParameters) < 2
          \/ cmd.connHandle[1] = ReadUInt16LE(evt.returnParameters, 0)
  THEN IF evt.status # Success
       THEN Some(Rejected(MakeHciError(evt.status)))
       ELSE Some(Resolved(evt))
  ELSE Null

\* sendWaitResult, the closure stored in onResult, applied to a result:
\* Null when it returns without completing, else the settlement
OnResult(cmd, evt) ==
  IF cmd.opcode # evt.opcode THEN Null
  ELSE IF cmd.connHandle = Null
  THEN IF evt.status # Success
       THEN Some(Rejected(MakeHciError(evt.status)))
       ELSE Some(Resolved(evt))
  ELSE IF "returnParameters" \notin DOMAIN evt THEN Null
  ELSE IF Len(evt.returnParameters) < 2 THEN Null
  ELSE IF cmd.connHandle[1] # ReadUInt16LE(evt.returnParameters, 0) THEN Null
  ELSE IF evt.status # Success
       THEN Some(Rejected(MakeHciError(evt.status)))
       ELSE Some(Resolved(evt))

\* variant: complete() settles the call but leaves the slot occupied
CompleteKeepsSlot(i, out) ==
  /\ timers'   = timers \ {i}
  /\ onResult' = onResult
  /\ outcome'  = Settle(outcome, i, out)
  /\ settled'  = Handed(outcome, i, out)

\* variant: complete() does not clear the timer of the call
CompleteKeepsTimer(i, out) ==
  /\ timers'   = timers
  /\ onResult' = Null
  /\ outcome'  = Settle(outcome, i, out)
  /\ settled'  = Handed(outcome, i, out)

\* sendWaitResult, complete(err, evt) of call i
Complete(i, out) ==
  /\ timers'   = timers \ {i}
  /\ onResult' = Null
  /\ outcome'  = Settle(outcome, i, out)
  /\ settled'  = Handed(outcome, i, out)

\* variant: the packet is handed to the transport before the slot is tested
SendWaitResultWriteFirst(cmd, i, send) ==
  IF IsBusy(onResult)
  THEN /\ outcome' = [outcome EXCEPT ![i] = BusyError]
       /\ settled' = Some(<< i, BusyError >>)
       /\ sent'    = << << HciCommand, BuildCommand(cmd)[1] >> >>
       /\ UNCHANGED << onResult, timers >>
  ELSE /\ timers'   = timers \cup {i}
       /\ onResult' = Some([call |-> i, cmd |-> cmd])
       /\ sent'     = << << HciCommand, BuildCommand(cmd)[1] >> >>
       /\ outcome'  = [outcome EXCEPT ![i] = Pending]
       /\ settled'  = Null

\* variant: a Busy rejection drops the closure of the pending call
SendWaitResultBusyClears(cmd, i, send) ==
  IF IsBusy(onResult)
  THEN /\ outcome' = [outcome EXCEPT ![i] = BusyError]
       /\ settled' = Some(<< i, BusyError >>)
       /\ sent'    = << >>
       /\ onResult' = Null
       /\ UNCHANGED timers
  ELSE /\ timers'   = timers \cup {i}
       /\ onResult' = Some([call |-> i, cmd |-> cmd])
       /\ sent'     = << << HciCommand, BuildCommand(cmd)[1] >> >>
       /\ outcome'  = [outcome EXCEPT ![i] = Pending]
       /\ settled'  = Null

\* what the last statement of the executor, this.send(HciCommand,
\* this.buildCommand(cmd)), throws: Null when it returns normally.  send
\* tells whether the injected send function returns ("ok") or throws
ExecutorThrows(built, send) ==
  IF built = Threw THEN Some(RangeError)
  ELSE IF send = "throws" THEN Some(TransportError)
  ELSE Null

\* variant: no timer is armed for an accepted command
SendWaitResultNoTimer(cmd, i, send) ==
  IF IsBusy(onResult)
  THEN /\ outcome' = [outcome EXCEPT ![i] = BusyError]
       /\ settled' = Some(<< i, BusyError >>)
       /\ sent'    = << >>
       /\ UNCHANGED << onResult, timers >>
  ELSE /\ timers'   = timers
       /\ onResult' = Some([call |-> i, cmd |-> cmd])
       /\ sent'     = << << HciCommand, BuildCommand(cmd)[1] >> >>
       /\ outcome'  = [outcome EXCEPT ![i] = Pending]
       /\ settled'  = Null

\* variant: the closure and the timer are registered after send returns,
\* so that nothing is registered while the packet is with the transport
SendWaitResultRegistersLate(cmd, i, send) ==
  IF IsBusy(onResult)
  THEN /\ outcome' = [outcome EXCEPT ![i] = BusyError]
       /\ settled' = Some(<< i, BusyError >>)
       /\ sent'    = << >>
       /\ UNCHANGED << onResult, timers >>
  ELSE /\ sent'    = << << HciCommand, BuildCommand(cmd)[1] >> >>
       /\ outcome' = [outcome EXCEPT ![i] = Pending]
       /\ settled' = Null
       /\ UNCHANGED << onResult, timers >>

\* sendWaitResult as call number i.  The slot is tested first; then the
\* timer is armed and the closure stored, and only then the packet is built
\* and sent: an exception of that last statement rejects the promise (it is
\* thrown inside the executor) and leaves the slot and the timer in place.
SendWaitResult(cmd, i, send) ==
  IF IsBusy(onResult)
  THEN /\ outcome' = [outcome EXCEPT ![i] = BusyError]
       /\ settled' = Some(<< i, BusyError >>)
       /\ sent'    = << >>
       /\ UNCHANGED << onResult, timers >>
  ELSE LET built  == BuildCommand(cmd)
           thrown == ExecutorThrows(built, send)
       IN  /\ timers'   = timers \cup {i}
           /\ onResult' = Some([call |-> i, cmd |-> cmd])
           /\ IF thrown = Null
              THEN /\ sent'    = << << HciCommand, built[1] >> >>
                   /\ outcome' = [outcome EXCEPT ![i] = Pending]
                   /\ settled' = Null
              ELSE /\ sent'    = << >>
                   /\ outcome' = [outcome EXCEPT ![i] = Rejected(thrown[1])]
                   /\ settled' = Some(<< i, Rejected(thrown[1]) >>)

\* HciCmd.onCmdResult
OnCmdResult(result) ==
  IF onResult # Null
  THEN LET r == OnResult(onResult[1].cmd, result)
       IN  IF r = Null
           THEN CmdIdle
           ELSE Complete(onResult[1].call, r[1]) /\ sent' = << >>
  ELSE CmdIdle

\* variant: the return parameters are sliced one byte early
OnCommandCompleteSliceEarly(payload) ==
  IF Len(payload) < 4
  THEN CmdIdle
  ELSE OnCmdResult([ status           |-> payload[4],
                     numHciPackets    |-> payload[1],
                     opcode           |-> ReadUInt16LE(payload, 1),
                     returnParameters |-> Slice(payload, 3) ])

\* Hci.onCommandComplete
OnCommandComplete(payload) ==
  IF Len(payload) < 4
  THEN CmdIdle
  ELSE OnCmdResult([ status           |-> payload[4],
                     numHciPackets    |-> payload[1],
                     opcode           |-> ReadUInt16LE(payload, 1),
                     returnParameters |-> Slice(payload, 4) ])

\* Hci.onCommandStatus
OnCommandStatus(payload) ==
  IF Len(payload) < 4
  THEN CmdIdle
  ELSE OnCmdResult([ status        |-> payload[1],
                     numHciPackets |-> payload[2],
                     opcode        |-> ReadUInt16LE(payload, 2) ])

\* variant: an error is built from every status
EmitEventAlwaysError(label, status, event) ==
  << label, Some(MakeHciError(status)), event >>

\* Hci.emitEvent: the notification emit(label, error, event)
EmitEvent(label, status, event) ==
  IF status = Success
  THEN << label, Null, event >>
  ELSE << label, Some(MakeHciError(status)), event >>

\* getHciErrorMessage(code)
GetHciErrorMessage(code) == << "message", code >>

\* Hci.onDisconnectionComplete: the notifications it emits, none when a
\* read past the end of the payload throws
OnDisconnectionComplete(payload) ==
  IF Len(payload) < 4 THEN << >>
  ELSE LET status           == payload[1]
           connectionHandle == ReadUInt16LE(payload, 1)
           reasonCode       == payload[4]
       IN  << EmitEvent("DisconnectionComplete", status,
                [ connectionHandle |-> connectionHandle,
                  reason |-> [ code |-> reasonCode,
                               message |-> GetHciErrorMessage(reasonCode) ] ]) >>

\* Hci.onEncryptionChange
OnEncryptionChange(payload) ==
  IF Len(payload) < 4 THEN << >>
  ELSE LET status           == payload[1]
           connectionHandle == ReadUInt16LE(payload, 1)
           encEnabled       == payload[4]
       IN  << EmitEvent("EncryptionChange", status,
                [ connectionHandle |-> connectionHandle, encEnabled |-> encEnabled ]) >>

\* LeConnectionComplete.parse, LeConnectionUpdateComplete.parse,
\* LeReadRemoteFeaturesComplete.parse, LeEnhConnectionComplete.parse: the
\* status byte and the decoded rest, nothing from an empty buffer
ParseStatusEvent(data) ==
  IF Len(data) < 1 THEN Threw
  ELSE Some([ status |-> data[1], eventData |-> [ raw |-> Slice(data, 1) ] ])

\* LeAdvReport.parse, LeExtAdvReport.parse: the report count, then the reports
ParseReports(data) ==
  IF Len(data) < 1 \/ Len(data) < 1 + data[1] THEN Threw
  ELSE Some([ k \in 1 .. data[1] |-> [ report |-> data[1 + k] ] ])

\* Hci.onLeConnectionComplete, onLeConnectionUpdateComplete,
\* onLeReadRemoteFeaturesComplete, onLeEnhancedConnectionComplete
OnLeStatusEvent(label, data) ==
  LET parsed == ParseStatusEvent(data)
  IN  IF parsed = Threw THEN << >>
      ELSE << EmitEvent(label, parsed[1].status, parsed[1].eventData) >>

\* variant: the reports are handed over from the last to the first
OnLeAdvertisingReportBackwards(data) ==
  LET reports == ParseReports(data)
  IN  IF reports = Threw THEN << >>
      ELSE [ k \in 1 .. Len(reports[1]) |->
               << "LeAdvertisingReport", reports[1][Len(reports[1]) + 1 - k] >> ]

\* Hci.onLeAdvertisingReport
OnLeAdvertisingReport(data) ==
  LET reports == ParseReports(data)
  IN  IF reports = Threw THEN << >>
      ELSE [ k \in 1 .. Len(reports[1]) |-> << "LeAdvertisingReport", reports[1][k] >> ]

\* Hci.onLeExtendedAdvertisingReport
OnLeExtendedAdvertisingReport(data) ==
  LET reports == ParseReports(data)
  IN  IF reports = Threw THEN << >>
      ELSE [ k \in 1 .. Len(reports[1]) |-> << "LeExtendedAdvertisingReport", reports[1][k] >> ]

\* Hci.onLeChannelSelectionAlgorithm
OnLeChannelSelectionAlgorithm(data) ==
  IF Len(data) < 3 THEN << >>
  ELSE << << "LeChannelSelectionAlgorithm",
             [ connectionHandle |-> ReadUInt16LE(data, 0), algorithm |-> data[3] ] >> >>

\* variant: the sub-events without a case, and only they, are handed to
\* the subscribers as they are
OnLeEventAnnouncesUnknown(data) ==
  IF Len(data) < 1 THEN << >>
  ELSE IF data[1] \in { LeEvtConnectionComplete, LeEvtAdvertisingReport,
                        LeEvtConnectionUpdateComplete, LeEvtReadRemoteFeaturesComplete,
                        LeEvtEnhancedConnectionComplete, LeEvtExtendedAdvertisingReport,
                        LeEvtChannelSelectionAlgorithm }
  THEN << >>
  ELSE << << "LeUnknown", data >> >>

\* Hci.onLeEvent: the notifications it emits
OnLeEvent(data) ==
  IF Len(data) < 1 THEN << >>
  ELSE LET eventType == data[1]
           payload   == Slice(data, 1)
       IN  CASE eventType = LeEvtConnectionComplete ->
                  OnLeStatusEvent("LeConnectionComplete", payload)
             [] eventType = LeEvtAdvertisingReport ->
                  OnLeAdvertisingReport(payload)
             [] eventType = LeEvtConnectionUpdateComplete ->
                  OnLeStatusEvent("LeConnectionUpdateComplete", payload)
             [] eventType = LeEvtReadRemoteFeaturesComplete ->
                  OnLeStatusEvent("LeReadRemoteFeaturesComplete", payload)
             [] eventType = LeEvtEnhancedConnectionComplete ->
                  OnLeStatusEvent("LeEnhancedConnectionComplete", payload)
             [] eventType = LeEvtExtendedAdvertisingReport ->
                  OnLeExtendedAdvertisingReport(payload)
             [] eventType = LeEvtChannelSelectionAlgorithm ->
                  OnLeChannelSelectionAlgorithm(payload)
             [] OTHER -> << >>

\* a subscriber the application registered with on(label, listener) throws
\* when it is called (apiIn holds the registration, when there is one)
SubscriberThrows == apiIn # Null /\ apiIn[1] = "on" /\ apiIn[2] = "throws"

\* EventEmitter.emit called for each of the notifications in turn: the
\* exception of a listener ends the handler at the first of them
HandedToSubscribers(notifications) ==
  IF SubscriberThrows /\ notifications # << >>
  THEN << notifications[1] >>
  ELSE notifications

\* the exception that the listener throws
ListenerError == [kind |-> "listener"]

\* whether a decoder of onHciEvent reads past the end of the payload of
\* the event data, a framed event packet
DecoderThrows(data) ==
  LET eventCode == data[1]
      payload   == Slice(data, 2)
  IN  CASE eventCode \in { EvtDisconnectionComplete, EvtEncryptionChange } ->
             Len(payload) < 4
        [] eventCode = EvtNumberOfCompletedPackets ->
             Len(payload) < 1 \/ Len(payload) < 1 + 4 * payload[1]
        [] eventCode = EvtLeMeta /\ Len(payload) >= 1 ->
             LET eventType == payload[1]
                 rest      == Slice(payload, 1)
             IN  CASE eventType \in { LeEvtConnectionComplete, LeEvtConnectionUpdateComplete,
                                      LeEvtReadRemoteFeaturesComplete,
                                      LeEvtEnhancedConnectionComplete } ->
                        ParseStatusEvent(rest) = Threw
                   [] eventType \in { LeEvtAdvertisingReport, LeEvtExtendedAdvertisingReport } ->
                        ParseReports(rest) = Threw
                   [] eventType = LeEvtChannelSelectionAlgorithm -> Len(rest) < 3
                   [] OTHER -> FALSE
        [] OTHER -> FALSE

\* the exception raised inside the try block of Hci.onData while it handles
\* a packet and hands the notifications handed to the subscribers, Null
\* when none is raised
Raised(packetType, data, handed) ==
  IF packetType # HciEvent \/ Len(data) < 2 THEN Null
  ELSE IF data[2] # Len(Slice(data, 2)) THEN Null
  ELSE IF DecoderThrows(data) THEN Some(RangeError)
  ELSE IF SubscriberThrows /\ handed # << >> THEN Some(ListenerError)
  ELSE Null

\* Hci.onHciEvent
OnHciEvent(data) ==
  IF Len(data) < 2 THEN CmdIdle /\ NoEmit
  ELSE IF data[2] # Len(Slice(data, 2)) THEN CmdIdle /\ NoEmit
  ELSE LET eventCode == data[1]
           payload   == Slice(data, 2)
       IN  CASE eventCode = EvtDisconnectionComplete ->
                  CmdIdle /\ emitted' = HandedToSubscribers(OnDisconnectionComplete(payload))
             [] eventCode = EvtEncryptionChange ->
                  CmdIdle /\ emitted' = HandedToSubscribers(OnEncryptionChange(payload))
             [] eventCode = EvtCommandComplete ->
                  OnCommandComplete(payload) /\ NoEmit
             [] eventCode = EvtCommandStatus ->
                  OnCommandStatus(payload) /\ NoEmit
             [] eventCode = EvtNumberOfCompletedPackets ->
                  CmdIdle /\ NoEmit
             [] eventCode = EvtLeMeta ->
                  CmdIdle /\ emitted' = HandedToSubscribers(OnLeEvent(payload))
             [] OTHER -> CmdIdle /\ NoEmit

\* variant: events are not looked at while a command is pending
OnDataSkipsWhilePending(packetType, data) ==
  IF packetType = HciEvent /\ (onResult = Null \/ data[1] = EvtCommandComplete)
  THEN OnHciEvent(data) ELSE CmdIdle /\ NoEmit

\* Hci.onData
OnData(packetType, data) ==
  IF packetType = HciEvent THEN OnHciEvent(data) ELSE CmdIdle /\ NoEmit

\* -------------------------------------------------------------- legacy Hci
\* Hci.send, the test of the pending slot
LegacyIsBusy(slot) == slot # Null

\* variant: the closure takes the event of any command
LegacyOnCmdCompleteAnyOpcode(opcode, evt) ==
  IF evt.status = Success
  THEN Some(Resolved(evt))
  ELSE Some(Rejected(MakeHciError(evt.status)))

\* Hci.send, the closure stored in onCmdComplete, applied to an event
LegacyOnCmdComplete(opcode, evt) ==
  IF opcode # evt.opcode THEN Null
  ELSE IF evt.status = Success
       THEN Some(Resolved(evt))
       ELSE Some(Rejected(MakeHciError(evt.status)))

\* Hci.send, complete(err, evt) of call i
LegacyComplete(i, out) ==
  /\ legTimers'     = legTimers \ {i}
  /\ onCmdComplete' = Null
  /\ legOutcome'    = Settle(legOutcome, i, out)
  /\ legSettled'    = Handed(legOutcome, i, out)

\* Hci.send as call number i
LegacySend(cmd, i, send) ==
  IF LegacyIsBusy(onCmdComplete)
  THEN /\ legOutcome' = [legOutcome EXCEPT ![i] = BusyError]
       /\ legSettled' = Some(<< i, BusyError >>)
       /\ legSent'    = << >>
       /\ UNCHANGED << onCmdComplete, cmdOpcode, legTimers >>
  ELSE LET built  == BuildBuffer(cmd)
           thrown == ExecutorThrows(built, send)
       IN  /\ legTimers'     = legTimers \cup {i}
           /\ onCmdComplete' = Some([call |-> i])
           /\ cmdOpcode'     = cmd.opcode
           /\ IF thrown = Null
              THEN /\ legSent'    = << built[1] >>
                   /\ legOutcome' = [legOutcome EXCEPT ![i] = Pending]
                   /\ legSettled' = Null
              ELSE /\ legSent'    = << >>
                   /\ legOutcome' = [legOutcome EXCEPT ![i] = Rejected(thrown[1])]
                   /\ legSettled' = Some(<< i, Rejected(thrown[1]) >>)

\* legacy Hci.onData
LegacyOnData(data) ==
  IF Len(data) < 2 THEN LegIdle /\ NoEmit
  ELSE IF data[2] # Len(Slice(data, 2))
  THEN /\ LegIdle
       /\ emitted' = << << "parser-error", << "evt", data[2], Len(Slice(data, 2)) >> >> >>
  ELSE IF data[1] = EvtCommandComplete
  THEN LET payload == Slice(data, 2)
       IN  IF Len(payload) < 4
           THEN /\ LegIdle
                /\ emitted' = << << "parser-error", << "evt-cmd_complete", Len(payload) >> >> >>
           ELSE IF onCmdComplete # Null
           THEN LET r == LegacyOnCmdComplete(cmdOpcode,
                           [ numHciPackets    |-> payload[1],
                             opcode           |-> ReadUInt16LE(payload, 1),
                             status           |-> payload[4],
                             returnParameters |-> Slice(payload, 4) ])
                IN  IF r = Null
                    THEN LegIdle /\ NoEmit
                    ELSE LegacyComplete(onCmdComplete[1].call, r[1])
                         /\ legSent' = << >>
                         /\ UNCHANGED cmdOpcode
                         /\ NoEmit
           ELSE LegIdle /\ NoEmit
  ELSE LegIdle /\ NoEmit

\* ------------------------------------------------------------------ inputs
Opcodes == { CommandOf(req).opcode : req \in Requests }

Statuses == { Success, InvalidHciCommandParameters }

\* return parameters that follow the status byte of a CommandComplete
ReturnParams == { << >>, << 10 >> } \cup { UInt16LE(h) \o << 255 >> : h \in Handles }

\* the bytes of a CommandComplete event packet (without the packet type tag)
CommandCompletePacket(opcode, status, params) ==
  << EvtCommandComplete, 4 + Len(params), 1 >> \o UInt16LE(opcode) \o << status >> \o params

\* the bytes of a CommandStatus event packet
CommandStatusPacket(opcode, status) ==
  << EvtCommandStatus, 4, status, 1 >> \o UInt16LE(opcode)

EventPackets ==
  { CommandCompletePacket(op, st, p) : op \in Opcodes, st \in Statuses, p \in ReturnParams }
    \cup { CommandStatusPacket(op, st) : op \in Opcodes, st \in Statuses }

\* the injected send function (HciInit.send / sendRaw) either returns or
\* throws; a submission during which it was called and threw is recorded
\* apart (it is not called when the slot is found occupied)
SendBehaviours == { "ok", "throws" }
SubmitTag(send, busy) == IF send = "throws" /\ ~busy THEN "submitThrows" ELSE "submit"

\* ----------------------------------------------------------------- actions
Init ==
  /\ stack \in {"HciCmd", "legacy"}
  /\ onResult = Null
  /\ timers = {}
  /\ outcome = [i \in Calls |-> NotCalled]
  /\ settled = Null
  /\ sent = << >>
  /\ onCmdComplete = Null
  /\ cmdOpcode = 0
  /\ legTimers = {}
  /\ legOutcome = [i \in Calls |-> NotCalled]
  /\ legSettled = Null
  /\ legSent = << >>
  /\ emitted = << >>
  /\ nCalls = 0
  /\ timedOut = {}
  /\ lastIn = << "init" >>
  /\ apiIn = Null
  /\ apiOut = Null

\* the application submits a command to the Hci that owns an HciCmd
Submit ==
  /\ NoEmit
  /\ stack = "HciCmd"
  /\ nCalls < MaxCalls
  /\ \E req \in Requests, send \in SendBehaviours :
       /\ SendWaitResult(CommandOf(req), nCalls + 1, send)
       /\ lastIn' = << SubmitTag(send, IsBusy(onResult)), req >>
  /\ nCalls' = nCalls + 1
  /\ LegIdle
  /\ UNCHANGED << stack, timedOut >>
  /\ ApiIdle

\* the transport delivers an event packet to Hci.onData
Deliver ==
  /\ stack = "HciCmd"
  /\ \E data \in EventPackets :
       /\ OnData(HciEvent, data)
       /\ lastIn' = << "data", data >>
  /\ LegIdle
  /\ UNCHANGED << stack, nCalls, timedOut >>
  /\ ApiIdle

\* a timer armed by HciCmd.sendWaitResult expires
Timeout ==
  /\ NoEmit
  /\ stack = "HciCmd"
  /\ \E i \in timers :
       /\ Complete(i, TimeoutError)
       /\ lastIn' = << "timeout", i >>
       /\ timedOut' = IF outcome[i] = Pending /\ onResult # Null /\ onResult[1].call = i
                       THEN timedOut \cup { onResult[1].cmd }
                       ELSE timedOut
  /\ sent' = << >>
  /\ LegIdle
  /\ UNCHANGED << stack, nCalls >>
  /\ ApiIdle

\* the application submits a command to the legacy Hci
LegacySubmit ==
  /\ NoEmit
  /\ stack = "legacy"
  /\ nCalls < MaxCalls
  /\ \E req \in Requests, send \in SendBehaviours :
       /\ LegacySend(LegacyCommandOf(req), nCalls + 1, send)
       /\ lastIn' = << SubmitTag(send, LegacyIsBusy(onCmdComplete)), req >>
  /\ nCalls' = nCalls + 1
  /\ CmdIdle
  /\ UNCHANGED << stack, timedOut >>
  /\ ApiIdle

\* the transport delivers an event packet to the legacy Hci.onData
LegacyDeliver ==
  /\ stack = "legacy"
  /\ \E data \in EventPackets :
       /\ LegacyOnData(data)
       /\ lastIn' = << "data", data >>
  /\ CmdIdle
  /\ UNCHANGED << stack, nCalls, timedOut >>
  /\ ApiIdle

\* a timer armed by the legacy Hci.send expires
LegacyTimeout ==
  /\ NoEmit
  /\ stack = "legacy"
  /\ \E i \in legTimers :
       /\ LegacyComplete(i, TimeoutError)
       /\ lastIn' = << "timeout", i >>
  /\ legSent' = << >>
  /\ CmdIdle
  /\ UNCHANGED << stack, cmdOpcode, nCalls, timedOut >>
  /\ ApiIdle

\* the caller gives up waiting for its pending command: HciCmd has no method
\* for that, so no code of the dispatcher runs
Abandon ==
  /\ NoEmit
  /\ stack = "HciCmd"
  /\ onResult # Null
  /\ outcome[onResult[1].call] = Pending
  /\ lastIn' = << "abandon", onResult[1].call >>
  /\ settled' = Null
  /\ sent' = << >>
  /\ UNCHANGED << onResult, timers, outcome >>
  /\ LegIdle
  /\ UNCHANGED << stack, nCalls, timedOut >>
  /\ ApiIdle

Next ==
  \/ Submit \/ Deliver \/ Timeout \/ Abandon
  \/ LegacySubmit \/ LegacyDeliver \/ LegacyTimeout

Spec == Init /\ [][Next]_vars

\* the timers of setTimeout fire: an armed timer that is not cleared expires
FairSpec == Spec /\ WF_vars(Timeout) /\ WF_vars(LegacyTimeout)

\* ------------------------------------------ one method call, all arguments
\* longest data buffer an application passes in
MaxDataLen == 257

\* a data buffer of n bytes with recognisable content
Bytes(n) == [k \in 1 .. n |-> k % 256]

\* what the synchronous part of a public method does: it throws, or it hands
\* a command to the dispatcher
Throws(err)  == [throws |-> err]
Submits(cmd) == [cmd |-> cmd]
\* what a helper that did not throw returns
Returns(v)   == [value |-> v]

\* HciCmd.lowEnergy({ ocf, payload }) with a payload of the caller's
CmdLowEnergy(payload) ==
  Submits(GroupCommand(OgfLeController,
            IF payload = Null
            THEN [ocf |-> OcfLeSetExtendedAdvertisingData]
            ELSE [ocf |-> OcfLeSetExtendedAdvertisingData, payload |-> payload[1]]))

\* legacy Hci.sendLeCommand
SendLeCommand(ocf, payload) ==
  Submits([opcode |-> HciOpcodeBuild(OgfLeController, ocf), params |-> payload])

\* variant: the fragment flag is written as it is given
LeSetExtendedAdvertisingDataFlagAsGiven(params) ==
  IF Len(params.data) > 255 THEN Throws(RangeError)
  ELSE SendLeCommand(OcfLeSetExtendedAdvertisingData,
         Some(<< params.advertisingHandle, params.operation,
                 IF params.fragment THEN 1 ELSE 0, Len(params.data) >>
              \o params.data))

\* legacy Hci.leSetExtendedAdvertisingData: writeUIntLE(data.length, o, 1)
\* throws before anything is submitted when the data exceed 255 bytes
LeSetExtendedAdvertisingData(params) ==
  IF Len(params.data) > 255 THEN Throws(RangeError)
  ELSE SendLeCommand(OcfLeSetExtendedAdvertisingData,
         Some(<< params.advertisingHandle, params.operation,
                 IF params.fragment THEN 0 ELSE 1, Len(params.data) >>
              \o params.data))

\* Buffer.readUIntLE(offset, n) / readUInt16LE / readUInt8 of bytes that are
\* there: the number, written as its n base-256 digits, lowest first
ReadUIntLE(buf, offset, n) == SubSeq(buf, offset + 1, offset + n)

\* the rejection of a decoder that finds too few return parameters
InvalidPayloadSize == Rejected(MakeParserError("InvalidPayloadSize"))

\* variant: readBdAddr reads without looking at the length, so that
\* readUIntLE throws on a short buffer
LegacyReadBdAddrUnchecked(evt) ==
  IF Len(evt.returnParameters) < 6 THEN Rejected(RangeError)
  ELSE Resolved(ReadUIntLE(evt.returnParameters, 0, 6))

\* legacy Hci.readBdAddr, after the await
LegacyReadBdAddrResult(evt) ==
  IF Len(evt.returnParameters) < 6 THEN InvalidPayloadSize
  ELSE Resolved(ReadUIntLE(evt.returnParameters, 0, 6))

\* legacy Hci.leReadBufferSize, after the await
LegacyLeReadBufferSizeResult(evt) ==
  IF Len(evt.returnParameters) < 3 THEN InvalidPayloadSize
  ELSE Resolved([ leAclDataPacketLength    |-> ReadUIntLE(evt.returnParameters, 0, 2),
                  totalNumLeAclDataPackets |-> ReadUIntLE(evt.returnParameters, 2, 1) ])

\* legacy Hci.leReadBufferSizeV2, after the await
LegacyLeReadBufferSizeV2Result(evt) ==
  IF Len(evt.returnParameters) < 6 THEN InvalidPayloadSize
  ELSE Resolved([ leAclDataPacketLength    |-> ReadUIntLE(evt.returnParameters, 0, 2),
                  totalNumLeAclDataPackets |-> ReadUIntLE(evt.returnParameters, 2, 1),
                  isoDataPacketLength      |-> ReadUIntLE(evt.returnParameters, 3, 2),
                  totalNumIsoDataPackets   |-> ReadUIntLE(evt.returnParameters, 5, 1) ])

\* Hci.leReadMaximumAdvertisingDataLength, after the await
LeReadMaximumAdvertisingDataLengthResult(evt) ==
  IF "returnParameters" \notin DOMAIN evt THEN InvalidPayloadSize
  ELSE IF Len(evt.returnParameters) < 2 THEN InvalidPayloadSize
  ELSE Resolved(ReadUIntLE(evt.returnParameters, 0, 2))

\* n zero bytes, as Buffer.alloc(size, 0) leaves them
Zeros(n) == [k \in 1 .. n |-> 0]

\* variant: the length test lets 32 bytes through; data.copy then fills the
\* 31 bytes there are
AdvertisingDataPayloadOffByOne(data) ==
  IF Len(data) > 32 THEN Throws(MakeHciError(InvalidCommandParameter))
  ELSE LET copied == SubSeq(data, 1, IF Len(data) < 31 THEN Len(data) ELSE 31)
       IN  Returns(<< Len(data) >> \o copied \o Zeros(31 - Len(copied)))

\* legacy Hci.leSetAdvertisingData / leSetScanResponseData up to the send:
\* the length test and the 32-byte payload
AdvertisingDataPayload(data) ==
  IF Len(data) > 31 THEN Throws(MakeHciError(InvalidCommandParameter))
  ELSE Returns(<< Len(data) >> \o data \o Zeros(31 - Len(data)))

\* legacy Hci.leSetAdvertisingData
LegacyLeSetAdvertisingData(data) ==
  LET p == AdvertisingDataPayload(data)
  IN  IF "throws" \in DOMAIN p THEN p
      ELSE SendLeCommand(OcfLeSetAdvertisingData, Some(p.value))

\* legacy Hci.leSetScanResponseData
LegacyLeSetScanResponseData(data) ==
  LET p == AdvertisingDataPayload(data)
  IN  IF "throws" \in DOMAIN p THEN p
      ELSE SendLeCommand(OcfLeSetScanResponseData, Some(p.value))

\* legacy Hci.leSetScanEnable.  The buffer comes from Buffer.allocUnsafe(2)
\* and holds the bytes unsafe that were in memory; both writeUInt8 calls
\* are made without an offset and write at offset 0
LegacyLeSetScanEnable(enable, filterDuplicates, unsafe) ==
  LET allocated == unsafe
      first     == [allocated EXCEPT ![1] = IF enable THEN 1 ELSE 0]
      second    == [first EXCEPT ![1] = IF filterDuplicates = Some(TRUE) THEN 1 ELSE 0]
  IN  SendLeCommand(OcfLeSetScanEnable, Some(second))

\* LeSetAdvertisingScanResponseData.inParams
LeSetAdvertisingScanResponseDataInParams(data) ==
  IF Len(data) > 31 THEN Throws(MakeHciError(InvalidCommandParameter))
  ELSE Returns(<< Len(data) >> \o data \o Zeros(31 - Len(data)))

\* Hci.leSetAdvertisingData
HciLeSetAdvertisingData(data) ==
  LET p == LeSetAdvertisingScanResponseDataInParams(data)
  IN  IF "throws" \in DOMAIN p THEN p
      ELSE Submits(GroupCommand(OgfLeController,
                                [ocf |-> OcfLeSetAdvertisingData, payload |-> p.value]))

\* Hci.leSetScanResponseData
HciLeSetScanResponseData(data) ==
  LET p == LeSetAdvertisingScanResponseDataInParams(data)
  IN  IF "throws" \in DOMAIN p THEN p
      ELSE Submits(GroupCommand(OgfLeController,
                                [ocf |-> OcfLeSetScanResponseData, payload |-> p.value]))

\* variant: the interval is counted in units of 1.25 ms
MsToHciValueCoarse(ms) == (8 * ms + 5) \div 10

\* legacy Hci.msToHciValue: Math.round(ms / 0.625), for whole milliseconds
MsToHciValue(ms) == (16 * ms + 5) \div 10

\* the PHYs selected in scanningPhy, in the order the method tests them
SelectedPhys(scanningPhy) ==
  (IF "Phy1M" \in DOMAIN scanningPhy THEN << scanningPhy.Phy1M >> ELSE << >>)
    \o (IF "PhyCoded" \in DOMAIN scanningPhy THEN << scanningPhy.PhyCoded >> ELSE << >>)

\* the bytes of seq[1], seq[2], ... one after the other
RECURSIVE Flatten(_)
Flatten(seq) == IF seq = << >> THEN << >> ELSE Head(seq) \o Flatten(Tail(seq))

\* variant: type, interval and window are written PHY by PHY
LegacyLeSetExtendedScanParametersPerPhy(params) ==
  LET phys    == SelectedPhys(params.scanningPhy)
      bitmask == BitOr(IF "Phy1M" \in DOMAIN params.scanningPhy THEN 2 ^ LeScanningPhy1M ELSE 0,
                       IF "PhyCoded" \in DOMAIN params.scanningPhy THEN 2 ^ LeScanningPhyCoded ELSE 0)
      fits    == \A k \in 1 .. Len(phys) :
                   /\ MsToHciValue(phys[k].intervalMs) <= 65535
                   /\ MsToHciValue(phys[k].windowMs) <= 65535
  IN  IF Len(phys) = 0 THEN Throws(MakeHciError(InvalidCommandParameter))
      ELSE IF ~fits THEN Throws(RangeError)
      ELSE SendLeCommand(OcfLeSetExtendedScanParameters,
             Some(<< params.ownAddressType, params.scanningFilterPolicy, bitmask >>
                  \o Flatten([k \in 1 .. Len(phys) |->
                                << phys[k].type >>
                                  \o UInt16LE(MsToHciValue(phys[k].intervalMs))
                                  \o UInt16LE(MsToHciValue(phys[k].windowMs))])))

\* legacy Hci.leSetExtendedScanParameters: the PHYs are counted, none is an
\* error; then own address type, filter policy and PHY bitmask are written,
\* then the types, the intervals and the windows, each for 1M then Coded.
\* writeUIntLE(value, o, 2) throws for a value above 65535
LegacyLeSetExtendedScanParameters(params) ==
  LET phys    == SelectedPhys(params.scanningPhy)
      bitmask == BitOr(IF "Phy1M" \in DOMAIN params.scanningPhy THEN 2 ^ LeScanningPhy1M ELSE 0,
                       IF "PhyCoded" \in DOMAIN params.scanningPhy THEN 2 ^ LeScanningPhyCoded ELSE 0)
      fits    == \A k \in 1 .. Len(phys) :
                   /\ MsToHciValue(phys[k].intervalMs) <= 65535
                   /\ MsToHciValue(phys[k].windowMs) <= 65535
  IN  IF Len(phys) = 0 THEN Throws(MakeHciError(InvalidCommandParameter))
      ELSE IF ~fits THEN Throws(RangeError)
      ELSE SendLeCommand(OcfLeSetExtendedScanParameters,
             Some(<< params.ownAddressType, params.scanningFilterPolicy, bitmask >>
                  \o [k \in 1 .. Len(phys) |-> phys[k].type]
                  \o Flatten([k \in 1 .. Len(phys) |-> UInt16LE(MsToHciValue(phys[k].intervalMs))])
                  \o Flatten([k \in 1 .. Len(phys) |-> UInt16LE(MsToHciValue(phys[k].windowMs))])))

\* the arguments given to leSetExtendedScanParameters
OwnAddressTypes        == { 1, 3 }
ScanningFilterPolicies == { 0, 2 }
ScanIntervalsMs        == { 10, 11, 40960 }
ScanWindowsMs          == { 10, 11 }
ScanPhySettings ==
  [type : { 0, 1 }, intervalMs : ScanIntervalsMs, windowMs : ScanWindowsMs]
ScanningPhys ==
  { [x \in {} |-> 0] }
    \cup { [Phy1M |-> a] : a \in ScanPhySettings }
    \cup { [PhyCoded |-> b] : b \in ScanPhySettings }
    \cup { [Phy1M |-> a, PhyCoded |-> b] : a \in ScanPhySettings, b \in ScanPhySettings }
ExtendedScanParameters ==
  { [ownAddressType |-> o, scanningFilterPolicy |-> f, scanningPhy |-> p] :
      o \in OwnAddressTypes, f \in ScanningFilterPolicies, p \in ScanningPhys }

\* longest advertising data an application passes in
MaxAdvDataLen == 33

\* legacy Hci.leSetExtendedScanResponseData
LeSetExtendedScanResponseData(params) ==
  IF Len(params.data) > 255 THEN Throws(RangeError)
  ELSE SendLeCommand(OcfLeSetExtendedScanResponseData,
         Some(<< params.advertisingHandle, params.operation,
                 IF params.fragment THEN 0 ELSE 1, Len(params.data) >>
              \o params.data))

\* the arguments given to leSetExtendedAdvertisingData and
\* leSetExtendedScanResponseData: complete data of every length, and short
\* data with every operation, both fragment preferences and the lowest and
\* highest advertising handle
MaxFragmentLen == 2
ExtendedDataParams ==
  { [advertisingHandle |-> 1, operation |-> 3, fragment |-> FALSE, data |-> Bytes(n)] :
      n \in 0 .. MaxDataLen }
    \cup { [advertisingHandle |-> h, operation |-> op, fragment |-> f, data |-> Bytes(n)] :
             h \in { 0, 239 }, op \in 0 .. 4, f \in BOOLEAN, n \in 0 .. MaxFragmentLen }

\* the calls studied on an Hci/HciCmd of the new stack and on a legacy Hci
CmdInputs ==
  { << "cmd.lowEnergy", Null >> }
    \cup { << "cmd.lowEnergy", Some(Bytes(n)) >> : n \in 0 .. MaxDataLen }
    \cup { << "leReadMaximumAdvertisingDataLength" >> }
    \cup { << m, Bytes(n) >> : m \in { "hci.leSetAdvertisingData", "hci.leSetScanResponseData" },
                               n \in 0 .. MaxAdvDataLen }
LegacyInputs ==
  { << "leSetExtendedAdvertisingData", p >> : p \in ExtendedDataParams }
    \cup { << "leSetExtendedScanResponseData", p >> :
             p \in { q \in ExtendedDataParams : q.operation \in 0 .. 2 } }
    \cup { << "readBdAddr" >>, << "leReadBufferSize" >>, << "leReadBufferSizeV2" >> }
    \cup { << m, Bytes(n) >> : m \in { "leSetAdvertisingData", "leSetScanResponseData" },
                               n \in 0 .. MaxAdvDataLen }
    \cup { << "leSetExtendedScanParameters", p >> : p \in ExtendedScanParameters }
    \cup { << "leSetScanEnable", enable, filterDuplicates, << b, c >> >> :
             enable \in BOOLEAN, filterDuplicates \in { Null, Some(FALSE), Some(TRUE) },
             b \in { 0, 1, 255 }, c \in { 0, 1, 255 } }
ApiInputs == CmdInputs \cup LegacyInputs

\* the synchronous part of the method named by an input
Prepare(in) ==
  CASE in[1] = "cmd.lowEnergy" -> CmdLowEnergy(in[2])
    [] in[1] = "leSetExtendedAdvertisingData"  -> LeSetExtendedAdvertisingData(in[2])
    [] in[1] = "leSetExtendedScanResponseData" -> LeSetExtendedScanResponseData(in[2])
    [] in[1] = "leReadMaximumAdvertisingDataLength" ->
         Submits(GroupCommand(OgfLeController, [ocf |-> OcfLeReadMaximumAdvertisingDataLength]))
    [] in[1] = "readBdAddr" ->
         Submits([opcode |-> HciOpcodeBuild(OgfInformationParameters, OcfReadBdAddr),
                  params |-> Null])
    [] in[1] = "leReadBufferSize"   -> SendLeCommand(OcfLeReadBufferSizeV1, Null)
    [] in[1] = "leReadBufferSizeV2" -> SendLeCommand(OcfLeReadBufferSizeV2, Null)
    [] in[1] = "leSetAdvertisingData"      -> LegacyLeSetAdvertisingData(in[2])
    [] in[1] = "leSetScanResponseData"     -> LegacyLeSetScanResponseData(in[2])
    [] in[1] = "hci.leSetAdvertisingData"  -> HciLeSetAdvertisingData(in[2])
    [] in[1] = "hci.leSetScanResponseData" -> HciLeSetScanResponseData(in[2])
    [] in[1] = "leSetExtendedScanParameters" -> LegacyLeSetExtendedScanParameters(in[2])
    [] in[1] = "leSetScanEnable" -> LegacyLeSetScanEnable(in[2], in[3], in[4])

\* what the method does with the event its command resolved with
Decode(in, evt) ==
  CASE in[1] = "cmd.lowEnergy" -> Resolved(evt)
    [] in[1] \in { "leSetExtendedAdvertisingData", "leSetExtendedScanResponseData" } ->
         Resolved(<< >>)
    [] in[1] = "leReadMaximumAdvertisingDataLength" ->
         LeReadMaximumAdvertisingDataLengthResult(evt)
    [] in[1] = "readBdAddr"         -> LegacyReadBdAddrResult(evt)
    [] in[1] = "leReadBufferSize"   -> LegacyLeReadBufferSizeResult(evt)
    [] in[1] = "leReadBufferSizeV2" -> LegacyLeReadBufferSizeV2Result(evt)
    [] in[1] \in { "leSetAdvertisingData", "leSetScanResponseData",
                   "hci.leSetAdvertisingData", "hci.leSetScanResponseData",
                   "leSetExtendedScanParameters", "leSetScanEnable" } ->
         Resolved(<< >>)

\* the part of the method after `await`: a rejection of the dispatcher is
\* rethrown, a resolution is decoded
Continue(in, s) ==
  IF s = Null THEN Null
  ELSE IF s[1][2].kind = "rejected" THEN Some(s[1][2])
  ELSE Some(Decode(in, s[1][2].evt))

\* the completions and statuses a controller may answer the call with
MaxReturnLen == 8
ApiReturnParams == { Bytes(n) : n \in 0 .. MaxReturnLen }
ApiPackets ==
  LET op == IF "cmd" \in DOMAIN Prepare(apiIn) THEN Prepare(apiIn).cmd.opcode ELSE 0
  IN  { CommandCompletePacket(op, st, p) : st \in Statuses, p \in ApiReturnParams }
        \cup { CommandStatusPacket(op, st) : st \in Statuses }

ApiInit ==
  /\ apiIn \in ApiInputs
  /\ apiOut = Null
  /\ stack = IF apiIn \in CmdInputs THEN "HciCmd" ELSE "legacy"
  /\ onResult = Null
  /\ timers = {}
  /\ outcome = [i \in Calls |-> NotCalled]
  /\ settled = Null
  /\ sent = << >>
  /\ onCmdComplete = Null
  /\ cmdOpcode = 0
  /\ legTimers = {}
  /\ legOutcome = [i \in Calls |-> NotCalled]
  /\ legSettled = Null
  /\ legSent = << >>
  /\ emitted = << >>
  /\ nCalls = 0
  /\ timedOut = {}
  /\ lastIn = << "init" >>

\* the application calls the method on a freshly constructed new-stack object
ApiCall ==
  /\ NoEmit
  /\ stack = "HciCmd"
  /\ nCalls = 0 /\ apiOut = Null
  /\ LET p == Prepare(apiIn)
     IN  IF "throws" \in DOMAIN p
         THEN /\ CmdIdle
              /\ apiOut' = Some(Rejected(p.throws))
         ELSE /\ SendWaitResult(p.cmd, 1, "ok")
              /\ apiOut' = Continue(apiIn, settled')
  /\ nCalls' = 1
  /\ lastIn' = << "call" >>
  /\ LegIdle
  /\ UNCHANGED << stack, timedOut, apiIn >>

\* the controller answers
ApiDeliver ==
  /\ stack = "HciCmd"
  /\ nCalls = 1 /\ apiOut = Null
  /\ \E data \in ApiPackets :
       /\ OnData(HciEvent, data)
       /\ lastIn' = << "data", data >>
  /\ apiOut' = Continue(apiIn, settled')
  /\ LegIdle
  /\ UNCHANGED << stack, nCalls, timedOut, apiIn >>

\* the application calls the method on a freshly constructed legacy Hci
LegacyApiCall ==
  /\ NoEmit
  /\ stack = "legacy"
  /\ nCalls = 0 /\ apiOut = Null
  /\ LET p == Prepare(apiIn)
     IN  IF "throws" \in DOMAIN p
         THEN /\ LegIdle
              /\ apiOut' = Some(Rejected(p.throws))
         ELSE /\ LegacySend(p.cmd, 1, "ok")
              /\ apiOut' = Continue(apiIn, legSettled')
  /\ nCalls' = 1
  /\ lastIn' = << "call" >>
  /\ CmdIdle
  /\ UNCHANGED << stack, timedOut, apiIn >>

\* the controller answers the legacy Hci
LegacyApiDeliver ==
  /\ stack = "legacy"
  /\ nCalls = 1 /\ apiOut = Null
  /\ \E data \in ApiPackets :
       /\ LegacyOnData(data)
       /\ lastIn' = << "data", data >>
  /\ apiOut' = Continue(apiIn, legSettled')
  /\ CmdIdle
  /\ UNCHANGED << stack, nCalls, timedOut, apiIn >>

ApiNext == ApiCall \/ ApiDeliver \/ LegacyApiCall \/ LegacyApiDeliver

ApiSpec == ApiInit /\ [][ApiNext]_vars

\* ------------------------------------------------- HciOpcode, all arguments
\* largest group and command fields handed to HciOpcode.build
MaxOgf == 63
MaxOcf == 1030

OpcodeInputs == { << "HciOpcode.build", ogf, ocf >> : ogf \in 0 .. MaxOgf, ocf \in 0 .. MaxOcf }

OpcodeInit ==
  /\ apiIn \in OpcodeInputs
  /\ apiOut = Null
  /\ stack = "HciCmd"
  /\ onResult = Null
  /\ timers = {}
  /\ outcome = [i \in Calls |-> NotCalled]
  /\ settled = Null
  /\ sent = << >>
  /\ onCmdComplete = Null
  /\ cmdOpcode = 0
  /\ legTimers = {}
  /\ legOutcome = [i \in Calls |-> NotCalled]
  /\ legSettled = Null
  /\ legSent = << >>
  /\ emitted = << >>
  /\ nCalls = 0
  /\ timedOut = {}
  /\ lastIn = << "init" >>

\* HciOpcode.expand(HciOpcode.build({ ogf, ocf }))
OpcodeBuildExpand ==
  /\ apiOut = Null
  /\ LET opcode == HciOpcodeBuild(apiIn[2], apiIn[3])
     IN  apiOut' = Some([opcode |-> opcode, expanded |-> HciOpcodeExpand(opcode)])
  /\ UNCHANGED << stack, onResult, timers, outcome, settled, sent,
                  onCmdComplete, cmdOpcode, legTimers, legOutcome, legSettled, legSent,
                  emitted, nCalls, timedOut, lastIn, apiIn >>

OpcodeSpec == OpcodeInit /\ [][OpcodeBuildExpand]_vars

\* ------------------------------------------ interval encoders, all arguments
\* the dispatchers of both stacks as constructed, no call made
NothingSubmitted ==
  /\ onResult = Null
  /\ timers = {}
  /\ outcome = [i \in Calls |-> NotCalled]
  /\ settled = Null
  /\ sent = << >>
  /\ onCmdComplete = Null
  /\ cmdOpcode = 0
  /\ legTimers = {}
  /\ legOutcome = [i \in Calls |-> NotCalled]
  /\ legSettled = Null
  /\ legSent = << >>
  /\ emitted = << >>
  /\ nCalls = 0
  /\ timedOut = {}
  /\ lastIn = << "init" >>

\* Buffer.writeUIntLE(v, o, n): the n bytes written, or the RangeError
WriteUIntLE(v, n) ==
  IF v >= 256 ^ n THEN Threw
  ELSE Some([k \in 1 .. n |-> (v \div (256 ^ (k - 1))) % 256])

\* Hci.buildBitfield
RECURSIVE BuildBitfield(_)
BuildBitfield(bits) ==
  IF bits = << >> THEN 0 ELSE BitOr(BuildBitfield(SubSeq(bits, 1, Len(bits) - 1)),
                                    2 ^ bits[Len(bits)])

\* Hci.hciValueToMs: val * 0.625, a number of eighths of a millisecond
HciValueToMs(val) == [eighths |-> 5 * val]

\* legacy Hci.leSetAdvertisingParameters
LeSetAdvertisingParameters(params) ==
  LET advertisingIntervalMin == MsToHciValue(params.advertisingIntervalMinMs)
      advertisingIntervalMax == MsToHciValue(params.advertisingIntervalMaxMs)
      advertisingChannelMap  == BuildBitfield(params.advertisingChannelMap)
      fields == << WriteUIntLE(advertisingIntervalMin, 2),
                   WriteUIntLE(advertisingIntervalMax, 2),
                   WriteUIntLE(params.advertisingType, 1),
                   WriteUIntLE(params.ownAddressType, 1),
                   WriteUIntLE(params.peerAddressType, 1),
                   Some(params.peerAddress),
                   WriteUIntLE(advertisingChannelMap, 1),
                   WriteUIntLE(params.advertisingFilterPolicy, 1) >>
  IN  IF \E k \in 1 .. Len(fields) : fields[k] = Threw THEN Throws(RangeError)
      ELSE SendLeCommand(OcfLeSetAdvertisingParameters,
             Some(Flatten([k \in 1 .. Len(fields) |-> fields[k][1]])))

\* legacy Hci.leSetExtendedAdvertisingParameters, up to the command it sends
LeSetExtendedAdvertisingParameters(params) ==
  LET advertisingEventProperties    == BuildBitfield(params.advertisingEventProperties)
      primaryAdvertisingIntervalMin == MsToHciValue(params.primaryAdvertisingIntervalMinMs)
      primaryAdvertisingIntervalMax == MsToHciValue(params.primaryAdvertisingIntervalMaxMs)
      primaryAdvertisingChannelMap  == BuildBitfield(params.primaryAdvertisingChannelMap)
      advertisingTxPower            == IF "advertisingTxPower" \in DOMAIN params
                                       THEN params.advertisingTxPower ELSE 127
      scanRequestNotificationEnable == IF params.scanRequestNotificationEnable THEN 1 ELSE 0
      fields == << WriteUIntLE(params.advertisingHandle, 1),
                   WriteUIntLE(advertisingEventProperties, 2),
                   WriteUIntLE(primaryAdvertisingIntervalMin, 3),
                   WriteUIntLE(primaryAdvertisingIntervalMax, 3),
                   WriteUIntLE(primaryAdvertisingChannelMap, 1),
                   WriteUIntLE(params.ownAddressType, 1),
                   WriteUIntLE(params.peerAddressType, 1),
                   Some(params.peerAddress),
                   WriteUIntLE(params.advertisingFilterPolicy, 1),
                   IF advertisingTxPower > 127 THEN Threw ELSE Some(<< advertisingTxPower >>),
                   WriteUIntLE(params.primaryAdvertisingPhy, 1),
                   WriteUIntLE(params.secondaryAdvertisingMaxSkip, 1),
                   WriteUIntLE(params.secondaryAdvertisingPhy, 1),
                   WriteUIntLE(params.advertisingSid, 1),
                   WriteUIntLE(scanRequestNotificationEnable, 1) >>
  IN  IF \E k \in 1 .. Len(fields) : fields[k] = Threw THEN Throws(RangeError)
      ELSE SendLeCommand(OcfLeSetExtendedAdvertisingParameters,
             Some(Flatten([k \in 1 .. Len(fields) |-> fields[k][1]])))

\* the intervals an application asks for, in whole milliseconds
MaxIntervalMs == 10240
\* the arguments of the three methods that take intervals: every interval
\* up to max as the shorter and the longer one, and the two ends together
IntervalInputs(max) ==
  LET IntervalPairs == { << m, m >> : m \in 20 .. max } \cup { << 20, 10240 >> }
      AdvertisingParameters(min, max_) ==
        [ advertisingIntervalMinMs |-> min, advertisingIntervalMaxMs |-> max_,
          advertisingType |-> 0, ownAddressType |-> 1, peerAddressType |-> 0,
          peerAddress |-> Zeros(6), advertisingChannelMap |-> << 0, 1, 2 >>,
          advertisingFilterPolicy |-> 0 ]
      ExtendedAdvertisingParameters(min, max_) ==
        [ advertisingHandle |-> 1, advertisingEventProperties |-> << 0, 1, 4 >>,
          primaryAdvertisingIntervalMinMs |-> min, primaryAdvertisingIntervalMaxMs |-> max_,
          primaryAdvertisingChannelMap |-> << 0, 1, 2 >>, ownAddressType |-> 1,
          peerAddressType |-> 0, peerAddress |-> Zeros(6), advertisingFilterPolicy |-> 0,
          primaryAdvertisingPhy |-> 1, secondaryAdvertisingMaxSkip |-> 0,
          secondaryAdvertisingPhy |-> 1, advertisingSid |-> 0,
          scanRequestNotificationEnable |-> FALSE ]
      ScanParameters(interval, window) ==
        [ ownAddressType |-> 1, scanningFilterPolicy |-> 0,
          scanningPhy |-> [Phy1M |-> [type |-> 1, intervalMs |-> interval,
                                       windowMs |-> window]] ]
  IN  { << "leSetAdvertisingParameters", AdvertisingParameters(p[1], p[2]) >> :
          p \in IntervalPairs }
        \cup { << "leSetExtendedAdvertisingParameters",
                  ExtendedAdvertisingParameters(p[1], p[2]) >> : p \in IntervalPairs }
        \cup { << "leSetExtendedScanParameters", ScanParameters(p[2], p[1]) >> :
                 p \in IntervalPairs }

IntervalInit ==
  /\ apiIn \in IntervalInputs(MaxIntervalMs)
  /\ apiOut = Null
  /\ stack = "Hci"
  /\ NothingSubmitted

\* the method named by the input builds its command
IntervalEncode ==
  /\ apiOut = Null
  /\ apiOut' = Some(CASE apiIn[1] = "leSetAdvertisingParameters" ->
                            LeSetAdvertisingParameters(apiIn[2])
                       [] apiIn[1] = "leSetExtendedAdvertisingParameters" ->
                            LeSetExtendedAdvertisingParameters(apiIn[2])
                       [] apiIn[1] = "leSetExtendedScanParameters" ->
                            LegacyLeSetExtendedScanParameters(apiIn[2]))
  /\ UNCHANGED << stack, onResult, timers, outcome, settled, sent,
                  onCmdComplete, cmdOpcode, legTimers, legOutcome, legSettled, legSent,
                  emitted, nCalls, timedOut, lastIn, apiIn >>

IntervalSpec == IntervalInit /\ [][IntervalEncode]_vars

\* ------------------------------------------------- event router, all events
\* most reports carried by one advertising-report event
MaxReports == 3

\* the bytes of an event packet: event code, length byte, payload
EventPacket(eventCode, payload) == << eventCode, Len(payload) >> \o payload

\* an LE Meta event: the sub-event code, then its parameters
LeMetaPacket(eventType, params) == EventPacket(EvtLeMeta, << eventType >> \o params)

\* the packets the controller sends: events of every kind whose length byte
\* is the number of payload bytes (with statuses 0, 2 and 255 and with 0 to
\* MaxReports reports), events with fewer or more parameters than their
\* decoder reads, some packets with one byte more or less declared than
\* delivered, and a packet of a single byte
RouterPackets ==
  LET EventStatuses  == { Success, 2, 255 }
      ReportsOf(k)   == << k >> \o [i \in 1 .. k |-> 100 + i]
      LeStatusEvents == { LeEvtConnectionComplete, LeEvtConnectionUpdateComplete,
                          LeEvtReadRemoteFeaturesComplete, LeEvtEnhancedConnectionComplete }
      FramedPackets ==
        { EventPacket(EvtDisconnectionComplete, << st >> \o UInt16LE(h) \o << 19 >>) :
            st \in EventStatuses, h \in Handles }
          \cup { EventPacket(EvtEncryptionChange, << st, 10, 0, 1 >>) : st \in EventStatuses }
          \cup { LeMetaPacket(e, << st, 10, 0 >>) : e \in LeStatusEvents, st \in EventStatuses }
          \cup { LeMetaPacket(e, ReportsOf(k)) :
                   e \in { LeEvtAdvertisingReport, LeEvtExtendedAdvertisingReport },
                   k \in 0 .. MaxReports }
          \cup { LeMetaPacket(LeEvtChannelSelectionAlgorithm, << 10, 0, 1 >>),
                 LeMetaPacket(99, << 0 >>),
                 EventPacket(EvtLeMeta, << >>),
                 EventPacket(EvtNumberOfCompletedPackets, << 1, 10, 0, 2, 0 >>),
                 EventPacket(255, << >>),
                 EventPacket(EvtDisconnectionComplete, << 0, 10, 0 >>),
                 EventPacket(EvtDisconnectionComplete, << 0, 10, 0, 19, 7 >>),
                 EventPacket(EvtEncryptionChange, << 0, 10 >>),
                 EventPacket(EvtEncryptionChange, << 2, 10, 0, 1, 7 >>),
                 EventPacket(EvtNumberOfCompletedPackets, << 1, 10 >>),
                 LeMetaPacket(LeEvtConnectionComplete, << >>),
                 LeMetaPacket(LeEvtAdvertisingReport, << 2, 101 >>),
                 LeMetaPacket(LeEvtChannelSelectionAlgorithm, << 10 >>),
                 EventPacket(EvtCommandComplete, << 1, 3, 12 >>) }
          \cup { CommandCompletePacket(HciReset.opcode, st, << >>) : st \in Statuses }
          \cup { CommandStatusPacket(HciReset.opcode, st) : st \in Statuses }
      MisframedPackets ==
        { [pkt EXCEPT ![2] = pkt[2] + d] :
            pkt \in { EventPacket(EvtDisconnectionComplete, << 0, 10, 0, 19 >>),
                      LeMetaPacket(LeEvtAdvertisingReport, ReportsOf(1)),
                      CommandCompletePacket(HciReset.opcode, Success, << >>),
                      CommandStatusPacket(HciReset.opcode, Success) },
            d \in { -1, 1 } }
  IN  FramedPackets \cup MisframedPackets \cup { << EvtDisconnectionComplete >> }

\* the transport delivers an event packet to Hci.onData
RouterDeliver ==
  /\ stack = "HciCmd"
  /\ \E data \in RouterPackets :
       /\ OnData(HciEvent, data)
       /\ lastIn' = << "data", data >>
  /\ LegIdle
  /\ UNCHANGED << stack, nCalls, timedOut >>
  /\ ApiIdle

\* the transport delivers an event packet to the legacy Hci.onData
LegacyRouterDeliver ==
  /\ stack = "legacy"
  /\ \E data \in RouterPackets :
       /\ LegacyOnData(data)
       /\ lastIn' = << "data", data >>
  /\ CmdIdle
  /\ UNCHANGED << stack, nCalls, timedOut >>
  /\ ApiIdle

EventNext ==
  \/ Submit \/ RouterDeliver \/ Timeout
  \/ LegacySubmit \/ LegacyRouterDeliver \/ LegacyTimeout

EventSpec == Init /\ [][EventNext]_vars

\* ------------------------------------------- LeSupportedStates, all bitmasks
\* LeState
ScanUndirectAdv           == 0
ConnScanUndirectAdv       == 1
NonConnNonScanUndirectAdv == 2
HighDutyConnDirectAdv     == 3
LowDutyConnDirectAdv      == 4
ActiveScanning            == 5
PassiveScanning           == 6
Initiating                == 7
ConnectionMasterRole      == 8
ConnectionSlaveRole       == 9

\* LeAllowedStates: entry b + 1 is the combination of bit b
LeAllowedStates ==
  <<
     << NonConnNonScanUndirectAdv >>,
     << ScanUndirectAdv >>,
     << ConnScanUndirectAdv >>,
     << HighDutyConnDirectAdv >>,
     << PassiveScanning >>,
     << ActiveScanning >>,
     << Initiating >>,
     << ConnectionSlaveRole >>,
     << NonConnNonScanUndirectAdv, PassiveScanning >>,
     << ScanUndirectAdv, PassiveScanning >>,
     << ConnScanUndirectAdv, PassiveScanning >>,
     << HighDutyConnDirectAdv, PassiveScanning >>,
     << NonConnNonScanUndirectAdv, ActiveScanning >>,
     << ScanUndirectAdv, ActiveScanning >>,
     << ConnScanUndirectAdv, ActiveScanning >>,
     << HighDutyConnDirectAdv, ActiveScanning >>,
     << NonConnNonScanUndirectAdv, Initiating >>,
     << ScanUndirectAdv, Initiating >>,
     << NonConnNonScanUndirectAdv, ConnectionMasterRole >>,
     << ScanUndirectAdv, ConnectionMasterRole >>,
     << NonConnNonScanUndirectAdv, ConnectionSlaveRole >>,
     << ScanUndirectAdv, ConnectionSlaveRole >>,
     << PassiveScanning, Initiating >>,
     << ActiveScanning, Initiating >>,
     << PassiveScanning, ConnectionMasterRole >>,
     << ActiveScanning, ConnectionMasterRole >>,
     << PassiveScanning, ConnectionSlaveRole >>,
     << ActiveScanning, ConnectionSlaveRole >>,
     << Initiating, ConnectionMasterRole >>,
     << LowDutyConnDirectAdv >>,
     << LowDutyConnDirectAdv, PassiveScanning >>,
     << LowDutyConnDirectAdv, ActiveScanning >>,
     << ConnScanUndirectAdv, Initiating >>,
     << HighDutyConnDirectAdv, Initiating >>,
     << LowDutyConnDirectAdv, Initiating >>,
     << ConnScanUndirectAdv, ConnectionMasterRole >>,
     << HighDutyConnDirectAdv, ConnectionMasterRole >>,
     << LowDutyConnDirectAdv, ConnectionMasterRole >>,
     << ConnScanUndirectAdv, ConnectionSlaveRole >>,
     << HighDutyConnDirectAdv, ConnectionSlaveRole >>,
     << LowDutyConnDirectAdv, ConnectionSlaveRole >>,
     << Initiating, ConnectionSlaveRole >>
  >>

\* variant: the loop stops before bit 41
FromBitmaskStopsEarly(bitmask) ==
  LET RECURSIVE loop(_, _)
      loop(b, states) ==
        IF b >= 41 THEN states
        ELSE loop(b + 1, IF b \in bitmask THEN Append(states, LeAllowedStates[b + 1])
                         ELSE states)
  IN  [states |-> loop(0, << >>)]

\* LeSupportedStates.fromBitmask; a bitmask is the set of its set bits
FromBitmask(bitmask) ==
  LET RECURSIVE loop(_, _)
      loop(b, states) ==
        IF b > 41 THEN states
        ELSE loop(b + 1, IF b \in bitmask THEN Append(states, LeAllowedStates[b + 1])
                         ELSE states)
  IN  [states |-> loop(0, << >>)]

\* the bitmasks decoded: up to MaxSetBits bits set anywhere in the 64, and
\* the bitmasks with all the low, all the high and all the bits set
MaxSetBits == 2
Bitmasks(n) ==
  LET RECURSIVE UpToBits(_)
      UpToBits(k) ==
        IF k = 0 THEN { {} }
        ELSE LET fewer == UpToBits(k - 1)
             IN  fewer \cup { bits \cup { b } : bits \in fewer, b \in 0 .. 63 }
  IN  UpToBits(n) \cup { 0 .. 41, 42 .. 63, 0 .. 63 }

StatesInit ==
  /\ apiIn \in { << "LeSupportedStates.fromBitmask", bits >> : bits \in Bitmasks(MaxSetBits) }
  /\ apiOut = Null
  /\ stack = "Hci"
  /\ NothingSubmitted

\* LeSupportedStates.fromBitmask(bitmask)
StatesDecode ==
  /\ apiOut = Null
  /\ apiOut' = Some(FromBitmask(apiIn[2]))
  /\ UNCHANGED << stack, onResult, timers, outcome, settled, sent,
                  onCmdComplete, cmdOpcode, legTimers, legOutcome, legSettled, legSent,
                  emitted, nCalls, timedOut, lastIn, apiIn >>

StatesSpec == StatesInit /\ [][StatesDecode]_vars

\* ------------------------------------------------ sendAclData, all arguments
\* Hci.sendAclData: the buffer handed to send, or the RangeError of
\* Buffer.writeUInt16LE
SendAclData(handle, params) ==
  LET aclHdrSize == 4
      hdr        == BitOr(BitOr(handle, params.boundary * 4096), params.broadcast * 16384)
  IN  IF hdr > 65535 \/ Len(params.data) > 65535 THEN Throws(RangeError)
      ELSE Returns(UInt16LE(hdr) \o UInt16LE(Len(params.data)) \o params.data)

\* largest handle an application passes to sendAclData
MaxHandle == 4097

\* the arguments of sendAclData: every handle up to max, the four
\* AclDataBoundary and the two AclDataBroadcast values, no data or two bytes
AclInputs(max) ==
  { << "sendAclData", handle, [boundary |-> bo, broadcast |-> br, data |-> Bytes(n)] >> :
      handle \in 0 .. max, bo \in 0 .. 3, br \in 0 .. 1, n \in { 0, 2 } }

AclInit ==
  /\ apiIn \in AclInputs(MaxHandle)
  /\ apiOut = Null
  /\ stack = "HciCmd"
  /\ NothingSubmitted

\* the application calls sendAclData on a freshly constructed Hci
AclSend ==
  /\ apiOut = Null
  /\ LET r == SendAclData(apiIn[2], apiIn[3])
     IN  IF "throws" \in DOMAIN r
         THEN /\ sent' = << >>
              /\ apiOut' = Some(Rejected(r.throws))
         ELSE /\ sent' = << << HciAclData, r.value >> >>
              /\ apiOut' = Some(Resolved(<< >>))
  /\ UNCHANGED << stack, onResult, timers, outcome, settled,
                  onCmdComplete, cmdOpcode, legTimers, legOutcome, legSettled, legSent,
                  emitted, nCalls, timedOut, lastIn, apiIn >>

AclSpec == AclInit /\ [][AclSend]_vars

\* ------------------------------------- leSetExtendedScanEnable, all arguments
\* params.key ?? value
OrElse(params, key, value) == IF key \in DOMAIN params THEN params[key] ELSE value

\* Math.round(ms / 10) and Math.round(sec / 1.28), for whole ms and seconds
RoundTenths(ms)   == (ms + 5) \div 10
RoundPeriod(sec)  == (25 * sec + 16) \div 32

\* variant: the quotients are cut off, not rounded
LeSetExtendedScanEnableFloors(params) ==
  LET duration == OrElse(params, "durationMs", 0) \div 10
      period   == (25 * OrElse(params, "periodSec", 0)) \div 32
      fields   == << WriteUIntLE(IF params.enable THEN 1 ELSE 0, 1),
                     WriteUIntLE(params.filterDuplicates, 1),
                     WriteUIntLE(duration, 2),
                     WriteUIntLE(period, 2) >>
  IN  IF \E k \in 1 .. Len(fields) : fields[k] = Threw THEN Throws(RangeError)
      ELSE SendLeCommand(OcfLeSetExtendedScanEnable,
             Some(Flatten([k \in 1 .. Len(fields) |-> fields[k][1]])))

\* legacy Hci.leSetExtendedScanEnable
LeSetExtendedScanEnable(params) ==
  LET duration == RoundTenths(OrElse(params, "durationMs", 0))
      period   == RoundPeriod(OrElse(params, "periodSec", 0))
      fields   == << WriteUIntLE(IF params.enable THEN 1 ELSE 0, 1),
                     WriteUIntLE(params.filterDuplicates, 1),
                     WriteUIntLE(duration, 2),
                     WriteUIntLE(period, 2) >>
  IN  IF \E k \in 1 .. Len(fields) : fields[k] = Threw THEN Throws(RangeError)
      ELSE SendLeCommand(OcfLeSetExtendedScanEnable,
             Some(Flatten([k \in 1 .. Len(fields) |-> fields[k][1]])))

\* the arguments asked for: the three LeScanFilterDuplicates values, the
\* short durations and periods, and those around the largest that fit 16
\* bits of ticks
MaxDurationMs == 60
MaxPeriodSec  == 40
ScanEnableParams(maxMs, maxSec) ==
  LET durations == { << >> } \cup { << d >> : d \in (0 .. maxMs) \cup { 655354, 655355 } }
      periods   == { << >> } \cup { << p >> : p \in (0 .. maxSec) \cup { 83885, 83886 } }
  IN  { [enable |-> e, filterDuplicates |-> f]
          @@ (IF d = << >> THEN << >> ELSE [durationMs |-> d[1]])
          @@ (IF p = << >> THEN << >> ELSE [periodSec |-> p[1]]) :
        e \in BOOLEAN, f \in 0 .. 2, d \in durations, p \in periods }

ScanEnableInit ==
  /\ apiIn \in { << "leSetExtendedScanEnable", params >> :
                   params \in ScanEnableParams(MaxDurationMs, MaxPeriodSec) }
  /\ apiOut = Null
  /\ stack = "Hci"
  /\ NothingSubmitted

\* leSetExtendedScanEnable builds its command
ScanEnableEncode ==
  /\ apiOut = Null
  /\ apiOut' = Some(LeSetExtendedScanEnable(apiIn[2]))
  /\ UNCHANGED << stack, onResult, timers, outcome, settled, sent,
                  onCmdComplete, cmdOpcode, legTimers, legOutcome, legSettled, legSent,
                  emitted, nCalls, timedOut, lastIn, apiIn >>

ScanEnableSpec == ScanEnableInit /\ [][ScanEnableEncode]_vars

\* ------------------------------------------- the two dispatchers side by side
\* an application drives an Hci of each kind over transports that behave alike
PairInit ==
  /\ stack = "both"
  /\ apiIn = Null
  /\ apiOut = Null
  /\ NothingSubmitted

\* the application submits the same command, one without connHandle, to both
PairSubmit ==
  /\ NoEmit
  /\ nCalls < MaxCalls
  /\ \E req \in { r \in Requests : CommandOf(r).connHandle = Null },
        send \in SendBehaviours :
       /\ SendWaitResult(CommandOf(req), nCalls + 1, send)
       /\ LegacySend(LegacyCommandOf(req), nCalls + 1, send)
       /\ lastIn' = << SubmitTag(send, IsBusy(onResult)), req >>
  /\ nCalls' = nCalls + 1
  /\ UNCHANGED << stack, timedOut >>
  /\ ApiIdle

\* both transports deliver the same CommandComplete event
PairDeliver ==
  /\ \E data \in { d \in EventPackets : d[1] = EvtCommandComplete } :
       /\ OnData(HciEvent, data)
       /\ LegacyOnData(data)
       /\ lastIn' = << "data", data >>
  /\ UNCHANGED << stack, nCalls, timedOut >>
  /\ ApiIdle

\* the timers armed for the same call expire
PairTimeout ==
  /\ NoEmit
  /\ \E i \in timers \cup legTimers :
       /\ IF i \in timers
          THEN Complete(i, TimeoutError) /\ sent' = << >>
          ELSE CmdIdle
       /\ IF i \in legTimers
          THEN LegacyComplete(i, TimeoutError) /\ legSent' = << >> /\ UNCHANGED cmdOpcode
          ELSE LegIdle
       /\ lastIn' = << "timeout", i >>
       /\ timedOut' = IF outcome[i] = Pending /\ onResult # Null /\ onResult[1].call = i
                       THEN timedOut \cup { onResult[1].cmd }
                       ELSE timedOut
  /\ UNCHANGED << stack, nCalls >>
  /\ ApiIdle

PairNext == PairSubmit \/ PairDeliver \/ PairTimeout

PairSpec == PairInit /\ [][PairNext]_vars

\* ------------------------------------------------------ shared vocabulary
\* --------------------------------- a transport that answers during the send
\* ------------------------- a transport that delivers packets of every type
\* The application has registered a subscriber that returns or one that
\* throws, submits commands and sends ACL data, and the transport hands
\* Hci.onData packets of the three types.  apiOut is what the last call of
\* onData gave the transport, or the last call of sendAclData its caller.

\* variant: the body of onData runs outside the try statement
OnDataUncaught(raised) ==
  IF raised = Null THEN Returns(Null) ELSE Throws(raised[1])

\* Hci.onData, try { ... } catch (err) { debug(err); }: what the call gives
\* its caller when the body raised an exception or none
OnDataCatches(raised) == Returns(Null)

TransportInit ==
  /\ apiIn \in { << "on", s >> : s \in { "returns", "throws" } }
  /\ apiOut = Null
  /\ stack = "HciCmd"
  /\ NothingSubmitted

\* the transport calls Hci.onData(packetType, data): with an event packet,
\* or with an ACL data or a command packet, which hold ACL data for a
\* connection or the bytes of an event
TransportDeliver ==
  /\ stack = "HciCmd"
  /\ \E packetType \in { HciCommand, HciAclData, HciEvent } :
     \E data \in IF packetType = HciEvent
                 THEN RouterPackets
                 ELSE { << 10, 32, 2, 0, 1, 2 >>,
                        CommandCompletePacket(HciReset.opcode, Success, << >>),
                        EventPacket(EvtDisconnectionComplete, << 0, 10, 0, 19 >>) } :
       /\ OnData(packetType, data)
       /\ lastIn' = << "data", data, packetType >>
       /\ apiOut' = Some(OnDataCatches(Raised(packetType, data, emitted')))
  /\ LegIdle
  /\ UNCHANGED << stack, nCalls, timedOut, apiIn >>

\* variant: sendAclData goes through the slot of the command dispatcher
SendAclDataWaitsForSlot(handle, params, send) ==
  IF IsBusy(onResult)
  THEN /\ sent' = << >>
       /\ apiOut' = Some(BusyError)
       /\ UNCHANGED onResult
  ELSE /\ sent' = << << HciAclData, SendAclData(handle, params).value >> >>
       /\ apiOut' = Some(Resolved(<< >>))
       /\ UNCHANGED onResult

\* Hci.sendAclData as an asynchronous call: the buffer is built and handed
\* to the injected send function; what either of them throws rejects the
\* promise of the call.  Nothing of HciCmd is read or written
SendAclDataCall(handle, params, send) ==
  LET r == SendAclData(handle, params)
  IN  /\ IF "throws" \in DOMAIN r
         THEN sent' = << >> /\ apiOut' = Some(Rejected(r.throws))
         ELSE IF send = "throws"
         THEN sent' = << >> /\ apiOut' = Some(Rejected(TransportError))
         ELSE /\ sent' = << << HciAclData, r.value >> >>
              /\ apiOut' = Some(Resolved(<< >>))
      /\ UNCHANGED onResult

\* the application sends ACL data on a connection
TransportSendAcl ==
  /\ NoEmit
  /\ stack = "HciCmd"
  /\ \E handle \in Handles, boundary \in { 0, 2 }, n \in { 0, 2 }, send \in SendBehaviours :
       LET params == [boundary |-> boundary, broadcast |-> 0, data |-> Bytes(n)]
       IN  /\ SendAclDataCall(handle, params, send)
           /\ lastIn' = << "acl", handle, params, send >>
  /\ settled' = Null
  /\ UNCHANGED << timers, outcome >>
  /\ LegIdle
  /\ UNCHANGED << stack, nCalls, timedOut, apiIn >>

TransportNext == Submit \/ TransportDeliver \/ Timeout \/ TransportSendAcl

TransportSpec == TransportInit /\ [][TransportNext]_vars

\* The send function injected into HciCmd may hand a packet of the
\* controller to Hci.onData before it returns.  lastIn = << "sending", req >>
\* says that control is inside this.send(...) of the call just accepted.
ReentrantInit == Init /\ stack = "HciCmd"

\* the application submits a command; an accepted one reaches this.send
ReentrantSubmit ==
  /\ NoEmit
  /\ stack = "HciCmd"
  /\ lastIn[1] # "sending"
  /\ nCalls < MaxCalls
  /\ \E req \in Requests :
       /\ SendWaitResult(CommandOf(req), nCalls + 1, "ok")
       /\ lastIn' = << IF IsBusy(onResult) THEN "submit" ELSE "sending", req >>
  /\ nCalls' = nCalls + 1
  /\ LegIdle
  /\ UNCHANGED << stack, timedOut >>
  /\ ApiIdle

\* from inside send the transport delivers an event packet to Hci.onData,
\* then send returns
ReentrantDeliver ==
  /\ stack = "HciCmd"
  /\ lastIn[1] = "sending"
  /\ \E data \in EventPackets :
       /\ OnData(HciEvent, data)
       /\ lastIn' = << "reentrantData", data >>
  /\ LegIdle
  /\ UNCHANGED << stack, nCalls, timedOut >>
  /\ ApiIdle

\* send returns without having delivered anything
SendReturns ==
  /\ stack = "HciCmd"
  /\ lastIn[1] = "sending"
  /\ lastIn' = << "submit", lastIn[2] >>
  /\ CmdIdle
  /\ NoEmit
  /\ LegIdle
  /\ UNCHANGED << stack, nCalls, timedOut >>
  /\ ApiIdle

\* events and timer expiries between the calls are run by the event loop,
\* only when no call is on the stack
ReentrantNext ==
  \/ ReentrantSubmit \/ ReentrantDeliver \/ SendReturns
  \/ (lastIn[1] # "sending" /\ Deliver)
  \/ (lastIn[1] # "sending" /\ Timeout)

ReentrantSpec == ReentrantInit /\ [][ReentrantNext]_vars

\* calls written to the transport and not yet settled
Outstanding    == { i \in Calls : outcome[i] = Pending }
LegOutstanding == { i \in Calls : legOutcome[i] = Pending }


\* what an event packet carries, read off its bytes
IsCommandComplete(data) == data[1] = EvtCommandComplete
IsCommandStatus(data)   == data[1] = EvtCommandStatus
PacketOpcode(data) == IF IsCommandComplete(data) THEN data[4] + 256 * data[5]
                                                 ELSE data[5] + 256 * data[6]
PacketStatus(data) == IF IsCommandComplete(data) THEN data[6] ELSE data[3]
PacketParams(data) == IF IsCommandComplete(data) THEN SubSeq(data, 7, Len(data)) ELSE << >>
\* the connection handle at the head of the return parameters, if any
PacketHandle(data) == IF Len(PacketParams(data)) >= 2
                      THEN Some(PacketParams(data)[1] + 256 * PacketParams(data)[2])
                      ELSE Null

\* the packet of scenario 1: CommandComplete for Reset, status Success
ResetCompletePacket == CommandCompletePacket(HciReset.opcode, Success, << >>)

\* the result HciCmd hands to the caller for a CommandComplete packet
ResultOf(data) ==
  [ status           |-> PacketStatus(data),
    numHciPackets    |-> data[3],
    opcode           |-> PacketOpcode(data),
    returnParameters |-> PacketParams(data) ]

\* ------------------------------------------------------------------ claims

\* C1: in HciCmd, whatever the interleaving of submissions, completion
\* events and timer expiries, at most one command has been written to the
\* transport and is neither completed nor timed out.
C1_AtMostOneOutstanding == Cardinality(Outstanding) <= 1

\* one command is outstanding while a later submission was turned away
C1_Witness ==
  /\ stack = "HciCmd"
  /\ \E i, j \in Calls : i < j /\ outcome[i] = Pending /\ outcome[j] = BusyError
  /\ Cardinality(Outstanding) = 1

\* C2: a command submitted while the pending slot is occupied rejects with
\* Busy and nothing is handed to the transport, in HciCmd.sendWaitResult
\* and in the legacy Hci.send.
C2_BusyNoWrite ==
  [][ /\ (stack = "HciCmd" /\ lastIn'[1] = "submit" /\ onResult # Null)
         => /\ settled' = Some(<< nCalls', BusyError >>)
            /\ outcome'[nCalls'] = BusyError
            /\ sent' = << >>
      /\ (stack = "legacy" /\ lastIn'[1] = "submit" /\ onCmdComplete # Null)
         => /\ legSettled' = Some(<< nCalls', BusyError >>)
            /\ legOutcome'[nCalls'] = BusyError
            /\ legSent' = << >>
    ]_vars

\* a submission has just been rejected with Busy by HciCmd, nothing written
C2_Witness ==
  /\ stack = "HciCmd"
  /\ lastIn[1] = "submit"
  /\ settled = Some(<< nCalls, BusyError >>)
  /\ sent = << >>
  /\ onResult # Null /\ onResult[1].call < nCalls

\* C3: a Busy rejection leaves the slot (expected opcode and handle), the
\* timer and the promise of the first command as they were, and the first
\* command still resolves when its completion arrives after the rejection
\* (Reset, ReadBdAddr rejected, then 0E 04 01 03 0C 00 resolves Reset).
C3_BusyLeavesPending ==
  [][ /\ (stack = "HciCmd" /\ lastIn'[1] = "submit" /\ onResult # Null)
         => /\ onResult' = onResult
            /\ timers' = timers
            /\ \A i \in Calls : i # nCalls' => outcome'[i] = outcome[i]
      /\ ( /\ stack = "HciCmd"
           /\ lastIn = << "submit", << "readBdAddr" >> >>
           /\ settled = Some(<< nCalls, BusyError >>)
           /\ onResult # Null
           /\ onResult[1].cmd = HciReset
           /\ outcome[onResult[1].call] = Pending
           /\ lastIn' = << "data", ResetCompletePacket >> )
         => /\ settled' = Some(<< onResult[1].call, Resolved(ResultOf(ResetCompletePacket)) >>)
            /\ outcome'[onResult[1].call] = Fulfilled
    ]_vars

\* Reset was resolved by its completion right after a later call was
\* rejected with Busy
C3_Witness ==
  /\ stack = "HciCmd"
  /\ lastIn = << "data", ResetCompletePacket >>
  /\ \E i, j \in Calls :
       /\ i < j
       /\ settled = Some(<< i, Resolved(ResultOf(ResetCompletePacket)) >>)
       /\ outcome[i] = Fulfilled
       /\ outcome[j] = BusyError

\* calls that were accepted, i.e. whose packet was written to the transport
Written(i) ==
  /\ outcome[i].kind # "none"
  /\ outcome[i] # BusyError
  /\ ~(outcome[i].kind = "rejected" /\ outcome[i].err.kind \in {"range", "transport"})
\* calls ended by a CommandComplete or CommandStatus event
CompletedByEvent(i) ==
  \/ outcome[i] = Fulfilled
  \/ outcome[i].kind = "rejected" /\ outcome[i].err.kind = "hci"

\* C4 as stated: the (n+1)-th accepted command is never written before the
\* completion event of the n-th accepted command has been processed.
C4_WriteAfterCompletionEvent ==
  \A i, j \in Calls : (i < j /\ Written(i) /\ Written(j)) => CompletedByEvent(i)

\* C4 amended: the (n+1)-th accepted command is never written before the
\* n-th accepted command has settled, by its completion event or by its
\* timeout.
C4_WriteAfterSettlement ==
  [][ (stack = "HciCmd" /\ sent' # << >>)
        => /\ \A i \in Calls : outcome[i] # Pending
           /\ \A i \in Calls : Written(i)' => (i = nCalls' \/ Written(i))
    ]_vars

\* a second command was written after the first one had completed
C4_Witness ==
  /\ stack = "HciCmd"
  /\ lastIn[1] = "submit"
  /\ sent # << >>
  /\ \E i \in Calls : i < nCalls /\ CompletedByEvent(i)
  /\ outcome[nCalls] = Pending

\* C5: a CommandComplete or CommandStatus event whose opcode differs from
\* the pending command's neither resolves nor rejects the pending call and
\* leaves the slot occupied with its timer armed, in HciCmd and in the
\* legacy Hci.
C5_OtherOpcodeIgnored ==
  [][ /\ ( /\ stack = "HciCmd"
           /\ lastIn'[1] = "data"
           /\ onResult # Null
           /\ PacketOpcode(lastIn'[2]) # onResult[1].cmd.opcode )
         => /\ settled' = Null
            /\ outcome' = outcome
            /\ onResult' = onResult
            /\ timers' = timers
            /\ onResult[1].call \in timers'
      /\ ( /\ stack = "legacy"
           /\ lastIn'[1] = "data"
           /\ onCmdComplete # Null
           /\ PacketOpcode(lastIn'[2]) # cmdOpcode )
         => /\ legSettled' = Null
            /\ legOutcome' = legOutcome
            /\ onCmdComplete' = onCmdComplete
            /\ legTimers' = legTimers
            /\ onCmdComplete[1].call \in legTimers'
    ]_vars

\* an event for another opcode has just been handled while a call is pending
C5_Witness ==
  /\ stack = "HciCmd"
  /\ lastIn[1] = "data"
  /\ IsCommandComplete(lastIn[2])
  /\ onResult # Null
  /\ PacketOpcode(lastIn[2]) # onResult[1].cmd.opcode
  /\ outcome[onResult[1].call] = Pending
  /\ onResult[1].call \in timers
  /\ settled = Null

\* the completion matches the pending command: same opcode and, when the
\* command registered a connection handle, that handle leads the return
\* parameters
MatchesPending(cmd, data) ==
  /\ PacketOpcode(data) = cmd.opcode
  /\ cmd.connHandle # Null => PacketHandle(data) = cmd.connHandle

\* C6: a CommandComplete that matches the pending command resolves the call
\* with the event's result (status, opcode and the return parameters after
\* the status byte) when the status is 0x00, and otherwise rejects it with
\* a controller error whose code is the status byte; nothing else happens.
C6_StatusClassification ==
  [][ ( /\ stack = "HciCmd"
        /\ lastIn'[1] = "data"
        /\ IsCommandComplete(lastIn'[2])
        /\ onResult # Null
        /\ outcome[onResult[1].call] = Pending
        /\ MatchesPending(onResult[1].cmd, lastIn'[2]) )
      => /\ settled' # Null
         /\ settled'[1][1] = onResult[1].call
         /\ IF PacketStatus(lastIn'[2]) = Success
            THEN /\ settled'[1][2] = Resolved(ResultOf(lastIn'[2]))
                 /\ outcome'[onResult[1].call] = Fulfilled
            ELSE /\ settled'[1][2].kind = "rejected"
                 /\ settled'[1][2].err.kind = "hci"
                 /\ settled'[1][2].err.code = PacketStatus(lastIn'[2])
                 /\ outcome'[onResult[1].call] = settled'[1][2]
         /\ \A j \in Calls : j # onResult[1].call => outcome'[j] = outcome[j]
         /\ onResult' = Null
    ]_vars

\* a call has just been resolved with return parameters taken from the event
C6_Witness ==
  /\ stack = "HciCmd"
  /\ lastIn[1] = "data"
  /\ IsCommandComplete(lastIn[2])
  /\ PacketStatus(lastIn[2]) = Success
  /\ PacketParams(lastIn[2]) # << >>
  /\ settled # Null
  /\ settled[1][2] = Resolved(ResultOf(lastIn[2]))

\* C7: when the timer of the pending call expires the call rejects with
\* Timeout and the slot is cleared; the next submission is written to the
\* transport, and a Reset submitted after a timeout resolves when its
\* completion arrives.  In HciCmd and in the legacy Hci.
C7_TimeoutThenRecovery ==
  [][ /\ (stack = "HciCmd" /\ lastIn'[1] = "timeout" /\ outcome[lastIn'[2]] = Pending)
         => /\ settled' = Some(<< lastIn'[2], TimeoutError >>)
            /\ outcome'[lastIn'[2]] = TimeoutError
            /\ onResult' = Null
            /\ lastIn'[2] \notin timers'
      /\ (stack = "HciCmd" /\ lastIn[1] = "timeout" /\ settled # Null /\ lastIn'[1] = "submit")
         => /\ sent' = << << HciCommand, BuildCommand(CommandOf(lastIn'[2]))[1] >> >>
            /\ outcome'[nCalls'] = Pending
      /\ ( /\ stack = "HciCmd"
           /\ timedOut # {}
           /\ onResult # Null
           /\ onResult[1].cmd = HciReset
           /\ outcome[onResult[1].call] = Pending
           /\ lastIn' = << "data", ResetCompletePacket >> )
         => settled' = Some(<< onResult[1].call, Resolved(ResultOf(ResetCompletePacket)) >>)
      /\ (stack = "legacy" /\ lastIn'[1] = "timeout" /\ legOutcome[lastIn'[2]] = Pending)
         => /\ legSettled' = Some(<< lastIn'[2], TimeoutError >>)
            /\ legOutcome'[lastIn'[2]] = TimeoutError
            /\ onCmdComplete' = Null
            /\ lastIn'[2] \notin legTimers'
      /\ (stack = "legacy" /\ lastIn[1] = "timeout" /\ legSettled # Null /\ lastIn'[1] = "submit")
         => /\ legSent' = << BuildBuffer(LegacyCommandOf(lastIn'[2]))[1] >>
            /\ legOutcome'[nCalls'] = Pending
      /\ ( /\ stack = "legacy"
           /\ \E i \in Calls : legOutcome[i] = TimeoutError
           /\ onCmdComplete # Null
           /\ cmdOpcode = HciReset.opcode
           /\ legOutcome[onCmdComplete[1].call] = Pending
           /\ lastIn' = << "data", ResetCompletePacket >> )
         => legSettled' = Some(<< onCmdComplete[1].call, Resolved(ResultOf(ResetCompletePacket)) >>)
    ]_vars

\* a call timed out and the Reset submitted after it has just been resolved
C7_Witness ==
  /\ stack = "HciCmd"
  /\ lastIn = << "data", ResetCompletePacket >>
  /\ \E i, j \in Calls :
       /\ i < j
       /\ outcome[i] = TimeoutError
       /\ settled = Some(<< j, Resolved(ResultOf(ResetCompletePacket)) >>)

\* C8: after Hci.leReadChannelMap(h), a CommandComplete for that opcode
\* whose return parameters begin with another handle is ignored and leaves
\* the call pending; one that begins with h settles the call.
C8_HandleDemultiplexing ==
  [][ \A h \in Handles :
        ( /\ stack = "HciCmd"
          /\ lastIn = << "submit", << "leReadChannelMap", h >> >>
          /\ onResult # Null
          /\ onResult[1].call = nCalls
          /\ lastIn'[1] = "data"
          /\ IsCommandComplete(lastIn'[2])
          /\ PacketOpcode(lastIn'[2]) = onResult[1].cmd.opcode
          /\ PacketHandle(lastIn'[2]) # Null )
        => IF PacketHandle(lastIn'[2]) = Some(h)
           THEN /\ settled' # Null
                /\ settled'[1][1] = nCalls
                /\ onResult' = Null
           ELSE /\ settled' = Null
                /\ outcome' = outcome
                /\ onResult' = onResult
    ]_vars

\* the completion is the reply to command c
BelongsTo(c, data) ==
  /\ PacketOpcode(data) = c.opcode
  /\ c.connHandle # Null => (IsCommandComplete(data) /\ PacketHandle(data) = c.connHandle)

\* C9: after a command that registered handle A has timed out, its late
\* completion (same opcode, return parameters led by A), arriving while a
\* command with the same opcode and another registered handle B is pending,
\* neither resolves nor rejects the pending command.
C9_LateReplyOtherConnection ==
  [][ ( /\ stack = "HciCmd"
        /\ lastIn'[1] = "data"
        /\ IsCommandComplete(lastIn'[2])
        /\ onResult # Null
        /\ onResult[1].cmd.connHandle # Null
        /\ \E c \in timedOut :
             /\ c.connHandle # Null
             /\ c.opcode = onResult[1].cmd.opcode
             /\ c.connHandle # onResult[1].cmd.connHandle
             /\ BelongsTo(c, lastIn'[2]) )
      => /\ settled' = Null
         /\ outcome' = outcome
         /\ onResult' = onResult
         /\ timers' = timers
    ]_vars

\* the late completion of a timed-out command for one handle has just been
\* handled while a command for another handle is pending
C9_Witness ==
  /\ stack = "HciCmd"
  /\ lastIn[1] = "data"
  /\ IsCommandComplete(lastIn[2])
  /\ onResult # Null
  /\ onResult[1].cmd.connHandle # Null
  /\ outcome[onResult[1].call] = Pending
  /\ settled = Null
  /\ \E c \in timedOut :
       /\ c.connHandle # Null
       /\ c.opcode = onResult[1].cmd.opcode
       /\ c.connHandle # onResult[1].cmd.connHandle
       /\ BelongsTo(c, lastIn[2])

\* C10: once a command has timed out, a completion of that command that
\* arrives later settles no call, whatever command is pending then.
C10_LateCompletionDiscarded ==
  [][ ( /\ stack = "HciCmd"
        /\ lastIn'[1] = "data"
        /\ \E c \in timedOut : BelongsTo(c, lastIn'[2]) )
      => /\ settled' = Null
         /\ outcome' = outcome
         /\ onResult' = onResult
    ]_vars


\* C11: a pending command can be cancelled by its caller: cancellation clears
\* the pending slot and stops the timer, and a command submitted right after
\* it is accepted instead of being rejected with Busy.
C11_CancellationClearsSlot ==
  [][ /\ (lastIn'[1] = "abandon" =>
            onResult' = Null /\ lastIn'[2] \notin timers')
      /\ (lastIn[1] = "abandon" /\ lastIn'[1] = "submit" =>
            outcome'[nCalls'] = Pending) ]_vars


\* C12: a CommandStatus event is forwarded to the dispatcher and completes
\* the pending command whose opcode it carries, with success on status 0 and
\* with a controller error otherwise, also when the pending command has
\* registered a connection handle.
C12_CommandStatusCompletes ==
  [][ ( /\ stack = "HciCmd"
        /\ lastIn'[1] = "data"
        /\ IsCommandStatus(lastIn'[2])
        /\ onResult # Null
        /\ outcome[onResult[1].call] = Pending
        /\ PacketOpcode(lastIn'[2]) = onResult[1].cmd.opcode )
      => /\ settled' # Null
         /\ settled'[1][1] = onResult[1].call
         /\ IF PacketStatus(lastIn'[2]) = Success
            THEN settled'[1][2].kind = "ok"
            ELSE settled'[1][2] = Rejected(MakeHciError(PacketStatus(lastIn'[2])))
         /\ onResult' = Null
    ]_vars


\* C15: when the transport write of a command fails inside sendWaitResult
\* (the send function or the framing throws), the error reaches the caller,
\* the pending slot is cleared and the timer is not left running, so a later
\* submission is not rejected with Busy because of the failed command.
C15_WriteFailureAbandonsPending ==
  [][ /\ (stack = "HciCmd" /\ lastIn'[1] = "submitThrows" /\ onResult = Null)
         => /\ settled' = Some(<< nCalls', Rejected(TransportError) >>)
            /\ onResult' = Null
            /\ nCalls' \notin timers'
      /\ ( /\ stack = "HciCmd"
           /\ lastIn[1] = "submitThrows"
           /\ settled = Some(<< nCalls, Rejected(TransportError) >>)
           /\ lastIn'[1] = "submit" )
         => outcome'[nCalls'] = Pending
    ]_vars


\* C14: the dispatcher has no lingering pending slot: in every reachable
\* state the slot is occupied only while the call that occupied it is still
\* unsettled, and a timer runs only for an unsettled call; after Reset and
\* its completion 0E 04 01 03 0C 00 the dispatcher is idle.
C14_NoLingeringSlot ==
  /\ onResult # Null => outcome[onResult[1].call] = Pending
  /\ \A i \in timers : outcome[i] = Pending
  /\ (lastIn = << "data", ResetCompletePacket >> /\ settled # Null)
       => (onResult = Null /\ timers = {})


\* C13: every command call eventually settles: a call that finds the slot
\* occupied is rejected with Busy in the step that submits it, and an
\* accepted call settles by a matching completion or, whatever events the
\* controller sends, by its timer firing; no accepted call stays pending
\* forever.  In HciCmd and in the legacy Hci.
C13_EveryCallSettles ==
  /\ \A i \in Calls : (outcome[i] = Pending) ~> (outcome[i] # Pending)
  /\ \A i \in Calls : (legOutcome[i] = Pending) ~> (legOutcome[i] # Pending)
  /\ [][ /\ (lastIn'[1] \in {"submit", "submitThrows"} /\ onResult # Null)
             => outcome'[nCalls'] = BusyError
         /\ (lastIn'[1] \in {"submit", "submitThrows"} /\ onCmdComplete # Null)
             => legOutcome'[nCalls'] = BusyError ]_vars

\* the last call made was accepted, no event completed it and its timer has
\* just rejected it; nothing is pending any more
C13_Witness ==
  /\ stack = "HciCmd"
  /\ lastIn = << "timeout", nCalls >>
  /\ settled = Some(<< nCalls, TimeoutError >>)
  /\ Outstanding = {}
  /\ timers = {}


\* the length of an optional payload
PayloadLength(payload) == IF payload = Null THEN 0 ELSE Len(payload[1])
\* the command the method under study hands to its dispatcher, if any
Submitted == Prepare(apiIn)
SubmittedPayload ==
  IF stack = "HciCmd" THEN Submitted.cmd.payload ELSE Submitted.cmd.params
\* pkt is opcode (16-bit little-endian), length byte, payload
Framed(pkt, opcode, payload) ==
  /\ Len(pkt) = 3 + PayloadLength(payload)
  /\ pkt[1] = opcode % 256 /\ pkt[2] = opcode \div 256
  /\ pkt[3] = PayloadLength(payload)
  /\ pkt[3] <= 255
  /\ payload # Null => SubSeq(pkt, 4, Len(pkt)) = payload[1]

\* C16: every command packet handed to the transport is opcode (16-bit
\* little-endian), length byte, payload; the length byte equals the payload
\* length and is at most 255, the packet has 3 + payload-length bytes (3
\* with length 0 when there is no payload), and for a payload above 255
\* bytes nothing is written.  In HciCmd.buildCommand and Hci.buildBuffer.
C16_CommandFraming ==
  /\ \A k \in 1 .. Len(sent) :
       /\ sent[k][1] = HciCommand
       /\ Framed(sent[k][2], Submitted.cmd.opcode, SubmittedPayload)
  /\ \A k \in 1 .. Len(legSent) :
       Framed(legSent[k], Submitted.cmd.opcode, SubmittedPayload)
  /\ (lastIn = << "call" >> /\ "cmd" \in DOMAIN Submitted)
       => IF PayloadLength(SubmittedPayload) <= 255
          THEN Len(sent) + Len(legSent) = 1
          ELSE sent = << >> /\ legSent = << >>

\* a command with the longest payload that fits, 255 bytes, has just been
\* written by HciCmd
C16_Witness ==
  /\ stack = "HciCmd"
  /\ lastIn = << "call" >>
  /\ Len(sent) = 1
  /\ sent[1][2][3] = 255
  /\ Len(sent[1][2]) = 258


\* C17: HciOpcode.build gives (ogf << 10) | (ocf & 0x3FF) for every ogf and
\* ocf, so the OCF never reaches the OGF bits, and for ogf in 0..63 and ocf
\* in 0..1023 HciOpcode.expand gives back the ogf and ocf that were built
\* (Reset, OGF 0x03 and OCF 0x0003, is 0x0C03).
C17_OpcodeBuildExpand ==
  apiOut # Null =>
    LET ogf == apiIn[2]
        ocf == apiIn[3]
    IN  /\ apiOut[1].opcode = ogf * 1024 + (ocf % 1024)
        /\ apiOut[1].opcode \div 1024 = ogf
        /\ (ogf <= 63 /\ ocf <= 1023) => apiOut[1].expanded = [ogf |-> ogf, ocf |-> ocf]
        /\ (ogf = OgfControlAndBaseband /\ ocf = OcfReset) => apiOut[1].opcode = 3075


\* what the dispatcher of the stack under study handed out in the last step
Settlement == IF stack = "HciCmd" THEN settled ELSE legSettled
\* the bytes each decoder needs
DecoderMethods == { "readBdAddr", "leReadBufferSize", "leReadBufferSizeV2",
                    "leReadMaximumAdvertisingDataLength" }
MinReturnLength(method) ==
  CASE method = "readBdAddr"         -> 6
    [] method = "leReadBufferSize"   -> 3
    [] method = "leReadBufferSizeV2" -> 6
    [] method = "leReadMaximumAdvertisingDataLength" -> 2
\* the return parameters of a result, none for a CommandStatus
ParamsOf(evt) == IF "returnParameters" \in DOMAIN evt THEN Some(evt.returnParameters) ELSE Null

AdvertisingDataMethods == { "leSetAdvertisingData", "leSetScanResponseData",
                            "hci.leSetAdvertisingData", "hci.leSetScanResponseData" }
\* the packets written by the last step, whichever the stack
WrittenPackets ==
  IF stack = "HciCmd" THEN [k \in 1 .. Len(sent) |-> sent[k][2]] ELSE legSent

\* C19: leSetAdvertisingData and leSetScanResponseData never succeed with
\* more than 31 data bytes: such a call rejects with InvalidCommandParameter
\* before anything is written and without occupying the pending slot; with
\* at most 31 bytes the payload written has 32 bytes: the data length, the
\* data, then zero padding.
C19_AdvertisingDataLength ==
  (apiIn # Null /\ apiIn[1] \in AdvertisingDataMethods /\ nCalls = 1)
  => LET data == apiIn[2]
     IN  IF Len(data) > 31
         THEN /\ apiOut = Some(Rejected(MakeHciError(InvalidCommandParameter)))
              /\ WrittenPackets = << >>
              /\ onResult = Null /\ onCmdComplete = Null
              /\ timers = {} /\ legTimers = {}
         ELSE lastIn = << "call" >>
              => /\ Len(WrittenPackets) = 1
                 /\ Len(WrittenPackets[1]) = 3 + 32
                 /\ WrittenPackets[1][3] = 32
                 /\ WrittenPackets[1][4] = Len(data)
                 /\ SubSeq(WrittenPackets[1], 5, 4 + Len(data)) = data
                 /\ \A k \in 5 + Len(data) .. 35 : WrittenPackets[1][k] = 0

\* the legacy leSetAdvertisingData has just turned away 32 bytes of data
C19_Witness ==
  /\ apiIn # Null
  /\ apiIn[1] = "leSetAdvertisingData"
  /\ Len(apiIn[2]) = 32
  /\ nCalls = 1
  /\ apiOut = Some(Rejected(MakeHciError(InvalidCommandParameter)))
  /\ legSent = << >>


\* v is ms expressed in units of 0.625 ms, rounded to the nearest
IsTicksOf(v, ms) == 10 * v - 5 <= 16 * ms /\ 16 * ms < 10 * v + 5
\* the 16-bit little-endian number at bytes o+1, o+2 of buf
U16At(buf, o) == buf[o + 1] + 256 * buf[o + 2]

\* C20: leSetExtendedScanParameters writes a payload of 3 + 5*N bytes for
\* N selected PHYs: own address type, filter policy, PHY bitmask (bit 0
\* for 1M, bit 2 for Coded), then all scan types, all intervals and all
\* windows, each group with 1M before Coded; with no PHY selected the call
\* rejects with InvalidCommandParameter and nothing is written.
C20_ExtendedScanParametersLayout ==
  (apiIn # Null /\ apiIn[1] = "leSetExtendedScanParameters" /\ nCalls = 1)
  => LET params == apiIn[2]
         has1M  == "Phy1M" \in DOMAIN params.scanningPhy
         hasCo  == "PhyCoded" \in DOMAIN params.scanningPhy
         N      == (IF has1M THEN 1 ELSE 0) + (IF hasCo THEN 1 ELSE 0)
         \* position of each PHY inside a group
         at1M   == 1
         atCo   == IF has1M THEN 2 ELSE 1
         fits   == /\ has1M => params.scanningPhy.Phy1M.intervalMs < 40960
                   /\ hasCo => params.scanningPhy.PhyCoded.intervalMs < 40960
     IN  IF N = 0
         THEN /\ apiOut = Some(Rejected(MakeHciError(InvalidCommandParameter)))
              /\ legSent = << >>
              /\ onCmdComplete = Null /\ legTimers = {}
         ELSE (fits /\ lastIn = << "call" >>)
              => /\ Len(legSent) = 1
                 /\ LET payload == SubSeq(legSent[1], 4, Len(legSent[1]))
                    IN  /\ Len(payload) = 3 + 5 * N
                        /\ legSent[1][3] = 3 + 5 * N
                        /\ payload[1] = params.ownAddressType
                        /\ payload[2] = params.scanningFilterPolicy
                        /\ payload[3] = (IF has1M THEN 1 ELSE 0) + (IF hasCo THEN 4 ELSE 0)
                        /\ has1M =>
                             /\ payload[3 + at1M] = params.scanningPhy.Phy1M.type
                             /\ IsTicksOf(U16At(payload, 3 + N + 2 * (at1M - 1)),
                                          params.scanningPhy.Phy1M.intervalMs)
                             /\ IsTicksOf(U16At(payload, 3 + 3 * N + 2 * (at1M - 1)),
                                          params.scanningPhy.Phy1M.windowMs)
                        /\ hasCo =>
                             /\ payload[3 + atCo] = params.scanningPhy.PhyCoded.type
                             /\ IsTicksOf(U16At(payload, 3 + N + 2 * (atCo - 1)),
                                          params.scanningPhy.PhyCoded.intervalMs)
                             /\ IsTicksOf(U16At(payload, 3 + 3 * N + 2 * (atCo - 1)),
                                          params.scanningPhy.PhyCoded.windowMs)

\* both PHYs were selected with different settings and the 13-byte payload
\* has just been written
C20_Witness ==
  /\ apiIn # Null
  /\ apiIn[1] = "leSetExtendedScanParameters"
  /\ DOMAIN apiIn[2].scanningPhy = { "Phy1M", "PhyCoded" }
  /\ apiIn[2].scanningPhy.Phy1M.type # apiIn[2].scanningPhy.PhyCoded.type
  /\ apiIn[2].scanningPhy.Phy1M.intervalMs # apiIn[2].scanningPhy.PhyCoded.intervalMs
  /\ lastIn = << "call" >>
  /\ Len(legSent) = 1
  /\ Len(legSent[1]) = 3 + 13


\* C21: leSetExtendedAdvertisingData and leSetExtendedScanResponseData
\* write a payload of 4 + data-length bytes: the advertising handle, the
\* operation, then 1 when fragment is false and 0 when it is true, then
\* the data length, then the data.
C21_ExtendedDataPayload ==
  ( /\ apiIn # Null
    /\ apiIn[1] \in { "leSetExtendedAdvertisingData", "leSetExtendedScanResponseData" }
    /\ lastIn = << "call" >>
    /\ 4 + Len(apiIn[2].data) <= 255 )
  => /\ Len(legSent) = 1
     /\ LET payload == SubSeq(legSent[1], 4, Len(legSent[1]))
            params  == apiIn[2]
        IN  /\ Len(payload) = 4 + Len(params.data)
            /\ payload[1] = params.advertisingHandle
            /\ payload[2] = params.operation
            /\ payload[3] = (IF params.fragment THEN 0 ELSE 1)
            /\ payload[4] = Len(params.data)
            /\ SubSeq(payload, 5, Len(payload)) = params.data

\* leSetExtendedAdvertisingData has just written a last fragment of two
\* bytes that the controller must not fragment further
C21_Witness ==
  /\ apiIn # Null
  /\ apiIn[1] = "leSetExtendedAdvertisingData"
  /\ apiIn[2].fragment
  /\ apiIn[2].operation = 2
  /\ Len(apiIn[2].data) = 2
  /\ lastIn = << "call" >>
  /\ Len(legSent) = 1
  /\ legSent[1][6] = 0


\* the intervals of the call, each with the offset and width of its field
IntervalFields ==
  CASE apiIn[1] = "leSetAdvertisingParameters" ->
         << << apiIn[2].advertisingIntervalMinMs, 0, 2 >>,
            << apiIn[2].advertisingIntervalMaxMs, 2, 2 >> >>
    [] apiIn[1] = "leSetExtendedAdvertisingParameters" ->
         << << apiIn[2].primaryAdvertisingIntervalMinMs, 3, 3 >>,
            << apiIn[2].primaryAdvertisingIntervalMaxMs, 6, 3 >> >>
    [] apiIn[1] = "leSetExtendedScanParameters" ->
         << << apiIn[2].scanningPhy.Phy1M.intervalMs, 4, 2 >>,
            << apiIn[2].scanningPhy.Phy1M.windowMs, 6, 2 >> >>
\* the little-endian number in the n bytes after offset o of buf
UIntAt(buf, o, n) ==
  LET RECURSIVE value(_)
      value(k) == IF k = 0 THEN 0 ELSE value(k - 1) + buf[o + k] * (256 ^ (k - 1))
  IN  value(n)
\* Math.round of a number of eighths
RoundEighths(x) == (x.eighths + 4) \div 8

\* C22: for every whole interval of 20 to 10240 ms the encoders write
\* round(ms / 0.625) ticks, the ticks times 0.625 round back to the
\* interval, and the ticks fit their field (2 bytes in the legacy
\* advertising and the scan parameters, 3 bytes in the extended advertising
\* parameters), 20 ms being 32 ticks and 10240 ms 16384.
C22_IntervalRoundTrip ==
  (apiOut # Null /\ apiIn[1] \in { "leSetAdvertisingParameters",
                                   "leSetExtendedAdvertisingParameters",
                                   "leSetExtendedScanParameters" })
  => /\ "cmd" \in DOMAIN apiOut[1]
     /\ \A k \in 1 .. Len(IntervalFields) :
          LET ms    == IntervalFields[k][1]
              ticks == UIntAt(apiOut[1].cmd.params[1], IntervalFields[k][2], IntervalFields[k][3])
          IN  /\ IsTicksOf(ticks, ms)
              /\ RoundEighths(HciValueToMs(ticks)) = ms
              /\ ms = 20 => ticks = 32
              /\ ms = 10240 => ticks = 16384

\* leSetExtendedAdvertisingParameters has written the intervals 20 ms and
\* 10240 ms as 32 and 16384 in three bytes each
C22_Witness ==
  /\ apiOut # Null
  /\ apiIn[1] = "leSetExtendedAdvertisingParameters"
  /\ apiIn[2].primaryAdvertisingIntervalMinMs = 20
  /\ apiIn[2].primaryAdvertisingIntervalMaxMs = 10240
  /\ "cmd" \in DOMAIN apiOut[1]
  /\ SubSeq(apiOut[1].cmd.params[1], 4, 9) = << 32, 0, 0, 0, 64, 0 >>


\* the packet delivered by the last step, if it was a delivery
LastPacket == IF lastIn[1] = "data" THEN Some(lastIn[2]) ELSE Null
\* data has a length byte and as many payload bytes as it says
IsFramed(data) == Len(data) >= 2 /\ data[2] = Len(data) - 2
\* data is an LE Meta event of the given sub-event
IsLeEvent(data, eventType) ==
  IsFramed(data) /\ data[1] = EvtLeMeta /\ Len(data) >= 3 /\ data[3] = eventType
\* data is an advertising-report event whose reports are all there
IsReportEvent(data, eventType) ==
  IsLeEvent(data, eventType) /\ Len(data) >= 4 /\ Len(data) = 4 + data[4]

\* C23: an advertising-report or extended-advertising-report event that
\* carries k reports is followed by exactly k notifications, one per report,
\* in the order of the reports in the event.
C23_OneNotificationPerReport ==
  \A e \in { LeEvtAdvertisingReport, LeEvtExtendedAdvertisingReport } :
    (stack = "HciCmd" /\ LastPacket # Null /\ IsReportEvent(LastPacket[1], e))
    => LET data == LastPacket[1]
           k    == data[4]
       IN  /\ Len(emitted) = k
           /\ \A i \in 1 .. k :
                /\ Len(emitted[i]) = 2
                /\ emitted[i][1] = (IF e = LeEvtAdvertisingReport
                                    THEN "LeAdvertisingReport"
                                    ELSE "LeExtendedAdvertisingReport")
                /\ emitted[i][2].report = data[4 + i]

\* three reports in one advertising-report event have given three
\* notifications, first report first
C23_Witness ==
  /\ stack = "HciCmd"
  /\ lastIn = << "data", LeMetaPacket(LeEvtAdvertisingReport, << 3, 101, 102, 103 >>) >>
  /\ Len(emitted) = 3
  /\ emitted[1][2].report = 101
  /\ emitted[3][2].report = 103

\* the labels of the notifications an event packet stands for, in order
Announces(data) ==
  IF ~IsFramed(data) THEN << >>
  ELSE IF data[1] = EvtDisconnectionComplete /\ data[2] >= 4 THEN << "DisconnectionComplete" >>
  ELSE IF data[1] = EvtEncryptionChange /\ data[2] >= 4 THEN << "EncryptionChange" >>
  ELSE IF IsLeEvent(data, LeEvtConnectionComplete) /\ data[2] >= 2
       THEN << "LeConnectionComplete" >>
  ELSE IF IsLeEvent(data, LeEvtConnectionUpdateComplete) /\ data[2] >= 2
       THEN << "LeConnectionUpdateComplete" >>
  ELSE IF IsLeEvent(data, LeEvtReadRemoteFeaturesComplete) /\ data[2] >= 2
       THEN << "LeReadRemoteFeaturesComplete" >>
  ELSE IF IsLeEvent(data, LeEvtEnhancedConnectionComplete) /\ data[2] >= 2
       THEN << "LeEnhancedConnectionComplete" >>
  ELSE IF IsLeEvent(data, LeEvtChannelSelectionAlgorithm) /\ data[2] >= 4
       THEN << "LeChannelSelectionAlgorithm" >>
  ELSE IF IsReportEvent(data, LeEvtAdvertisingReport)
       THEN [i \in 1 .. data[4] |-> "LeAdvertisingReport"]
  ELSE IF IsReportEvent(data, LeEvtExtendedAdvertisingReport)
       THEN [i \in 1 .. data[4] |-> "LeExtendedAdvertisingReport"]
  ELSE << >>
\* the labels of a sequence of notifications
LabelsOf(notifications) == [i \in 1 .. Len(notifications) |-> notifications[i][1]]

\* C24: every event packet handed to Hci.onData is announced to the
\* subscribers within that call, whatever the state of the command
\* dispatcher, and no other step announces anything: the notifications
\* follow the order of the packets, none held back, none reordered by a
\* command submitted, completed or timed out in between.
C24_EventsInDeliveryOrder ==
  [][ stack = "HciCmd" =>
        IF lastIn'[1] = "data"
        THEN LabelsOf(emitted') = Announces(lastIn'[2])
        ELSE emitted' = << >> ]_vars

\* a disconnection has been announced while a command was pending
C24_Witness ==
  /\ stack = "HciCmd"
  /\ onResult # Null
  /\ outcome[onResult[1].call] = Pending
  /\ LastPacket # Null
  /\ LastPacket[1][1] = EvtDisconnectionComplete
  /\ Len(emitted) = 1
  /\ emitted[1][1] = "DisconnectionComplete"

\* the events that start with a status byte, and that byte
StatusLabels == { "DisconnectionComplete", "EncryptionChange", "LeConnectionComplete",
                  "LeConnectionUpdateComplete", "LeReadRemoteFeaturesComplete",
                  "LeEnhancedConnectionComplete" }
StatusOf(data) == IF data[1] = EvtLeMeta THEN data[4] ELSE data[3]

\* C25: an event with a status byte reaches the subscriber as the pair
\* (error, event), the error being null exactly when the status is 0 and
\* otherwise the controller error of that status, the event being there in
\* both cases; advertising reports and channel-selection-algorithm
\* notifications carry the event alone.
C25_StatusEventsCarryError ==
  (stack = "HciCmd" /\ LastPacket # Null /\ Announces(LastPacket[1]) # << >>)
  => /\ Len(emitted) = Len(Announces(LastPacket[1]))
     /\ \A i \in 1 .. Len(emitted) :
          IF Announces(LastPacket[1])[i] \in StatusLabels
          THEN /\ Len(emitted[i]) = 3
               /\ emitted[i][2] = Null <=> StatusOf(LastPacket[1]) = 0
               /\ emitted[i][2] # Null =>
                    emitted[i][2] = Some(MakeHciError(StatusOf(LastPacket[1])))
               /\ DOMAIN emitted[i][3] # {}
          ELSE /\ Len(emitted[i]) = 2
               /\ DOMAIN emitted[i][2] # {}

\* an LE connection attempt that failed with status 2 has been announced
\* with the error and the event
C25_Witness ==
  /\ stack = "HciCmd"
  /\ lastIn = << "data", LeMetaPacket(LeEvtConnectionComplete, << 2, 10, 0 >>) >>
  /\ Len(emitted) = 1
  /\ emitted[1][2] = Some(MakeHciError(2))
  /\ emitted[1][3].raw = << 10, 0 >>

\* data declares a payload length it does not have, or is a CommandComplete
\* of fewer than 4 payload bytes
IsMalformed(data) ==
  /\ Len(data) >= 2
  /\ \/ data[2] # Len(data) - 2
     \/ data[1] = EvtCommandComplete /\ Len(data) - 2 < 4

\* C28: an event packet whose length byte differs from the number of
\* payload bytes delivered, or a CommandComplete of fewer than 4 payload
\* bytes, is reported on the parser-error channel and not dispatched: no
\* pending command completes and no other notification is emitted.
C28_MalformedReported ==
  (LastPacket # Null /\ IsMalformed(LastPacket[1]))
  => /\ Len(emitted) = 1
     /\ emitted[1][1] = "parser-error"
     /\ settled = Null
     /\ legSettled = Null


\* the set bits of a bitmask that fromBitmask looks at
LowBits(bitmask) == bitmask \cap (0 .. 41)
\* the i-th of the bits in ascending order
NthBit(bits, i) == CHOOSE b \in bits : Cardinality({ c \in bits : c < b }) = i - 1

\* C26: LeSupportedStates.fromBitmask gives one entry per set bit among
\* bits 0..41, in ascending bit order, each the LeAllowedStates combination
\* of its bit (one or two states); bits 42..63 add nothing, so the result is
\* that of the bitmask cut down to bits 0..41.
C26_SupportedStatesFromBitmask ==
  (apiOut # Null /\ apiIn[1] = "LeSupportedStates.fromBitmask")
  => LET bits   == LowBits(apiIn[2])
         states == apiOut[1].states
     IN  /\ Len(states) = Cardinality(bits)
         /\ \A i \in 1 .. Len(states) :
              /\ states[i] = LeAllowedStates[NthBit(bits, i) + 1]
              /\ Len(states[i]) \in { 1, 2 }
         /\ apiOut[1] = FromBitmask(bits)

\* bits 41 and 50 decode to the one combination of bit 41
C26_Witness ==
  /\ apiIn = << "LeSupportedStates.fromBitmask", { 41, 50 } >>
  /\ apiOut = Some([states |-> << << Initiating, ConnectionSlaveRole >> >>])


\* C27: sendAclData writes the header handle (bits 0..11), boundary (bits
\* 12..13), broadcast (bits 14..15) as a 16-bit little-endian number, then
\* the data length as a 16-bit little-endian number, then the data; handle,
\* boundary and broadcast are read back unchanged from the header.
C27_AclHeaderFields ==
  (apiOut # Null /\ apiIn[1] = "sendAclData")
  => /\ Len(sent) = 1
     /\ sent[1][1] = HciAclData
     /\ LET buffer == sent[1][2]
            hdr    == U16At(buffer, 0)
            params == apiIn[3]
        IN  /\ hdr % 4096 = apiIn[2]
            /\ (hdr \div 4096) % 4 = params.boundary
            /\ hdr \div 16384 = params.broadcast
            /\ U16At(buffer, 2) = Len(params.data)
            /\ Slice(buffer, 4) = params.data


\* t is x / unit rounded to the nearest whole number, halves upwards, for
\* x and unit given in the same small unit
IsNearest(t, x, unit) == 2 * unit * t - unit <= 2 * x /\ 2 * x < 2 * unit * t + unit

\* C29: leSetExtendedScanEnable writes 6 bytes: enable, filterDuplicates,
\* then round(durationMs / 10) and round(periodSec / 1.28), each in 2 bytes
\* little-endian and each 0 when the argument is left out.
C29_ScanEnablePayload ==
  (apiOut # Null /\ apiIn[1] = "leSetExtendedScanEnable")
  => LET params     == apiIn[2]
         durationMs == IF "durationMs" \in DOMAIN params THEN params.durationMs ELSE 0
         periodSec  == IF "periodSec" \in DOMAIN params THEN params.periodSec ELSE 0
     IN  (durationMs < 655355 /\ periodSec < 83886)
         => /\ "cmd" \in DOMAIN apiOut[1]
            /\ LET payload == apiOut[1].cmd.params[1]
               IN  /\ Len(payload) = 6
                   /\ payload[1] = (IF params.enable THEN 1 ELSE 0)
                   /\ payload[2] = params.filterDuplicates
                   /\ IsNearest(U16At(payload, 2), durationMs, 10)
                   /\ IsNearest(U16At(payload, 4), 100 * periodSec, 128)
                   /\ "durationMs" \notin DOMAIN params => U16At(payload, 2) = 0
                   /\ "periodSec" \notin DOMAIN params => U16At(payload, 4) = 0

\* a scan of 15 ms every 16 s with no duplicate filter has been encoded as
\* 2 ticks of duration and 13 of period
C29_Witness ==
  /\ apiIn = << "leSetExtendedScanEnable",
                [enable |-> TRUE, filterDuplicates |-> 0, durationMs |-> 15, periodSec |-> 16] >>
  /\ apiOut # Null
  /\ "cmd" \in DOMAIN apiOut[1]
  /\ apiOut[1].cmd.params[1] = << 1, 0, 2, 0, 13, 0 >>


\* the command packets in a sequence of arguments handed to HciCmd's send
CommandBytes(packets) == [k \in 1 .. Len(packets) |-> packets[k][2]]

\* C30: for commands without a connection handle and CommandComplete
\* events only, the legacy Hci.send and HciCmd.sendWaitResult, taken
\* through the same submissions, events and timer expiries, write the same
\* command packets and give every call the same outcome, and hold their
\* slot and their timers alike.
C30_DispatchersAgree ==
  stack = "both"
  => /\ legOutcome = outcome
     /\ legSettled = settled
     /\ legSent = CommandBytes(sent)
     /\ legTimers = timers
     /\ (onCmdComplete = Null) <=> (onResult = Null)

\* both dispatchers have turned the second call away as Busy and then
\* resolved the first with the controller's CommandComplete
C30_Witness ==
  /\ stack = "both"
  /\ outcome[1].kind = "ok" /\ legOutcome[1].kind = "ok"
  /\ outcome[2] = BusyError /\ legOutcome[2] = BusyError
  /\ lastIn[1] = "data"
  /\ settled # Null /\ legSettled # Null

\* C31: a timer only ever expires for the call that holds the slot, so a
\* Timeout rejection reaches no other call and the expiry clears no other
\* call's slot; a call is rejected with Timeout by the expiry of its own
\* timer only; and a call completed by an event has its timer cancelled.
\* In HciCmd and in the legacy Hci.
C31_TimeoutOnlyOwnCommand ==
  [][ /\ (stack = "HciCmd" /\ lastIn'[1] = "timeout")
         => /\ onResult # Null
            /\ onResult[1].call = lastIn'[2]
            /\ settled' \in { Null, Some(<< lastIn'[2], TimeoutError >>) }
            /\ \A j \in Calls \ { lastIn'[2] } : outcome'[j] = outcome[j]
      /\ (stack = "HciCmd" /\ settled' # Null /\ settled'[1][2] = TimeoutError)
         => lastIn' = << "timeout", settled'[1][1] >>
      /\ (stack = "HciCmd" /\ lastIn'[1] = "data" /\ settled' # Null)
         => settled'[1][1] \notin timers'
      /\ (stack = "legacy" /\ lastIn'[1] = "timeout")
         => /\ onCmdComplete # Null
            /\ onCmdComplete[1].call = lastIn'[2]
            /\ legSettled' \in { Null, Some(<< lastIn'[2], TimeoutError >>) }
            /\ \A j \in Calls \ { lastIn'[2] } : legOutcome'[j] = legOutcome[j]
      /\ (stack = "legacy" /\ legSettled' # Null /\ legSettled'[1][2] = TimeoutError)
         => lastIn' = << "timeout", legSettled'[1][1] >>
      /\ (stack = "legacy" /\ lastIn'[1] = "data" /\ legSettled' # Null)
         => legSettled'[1][1] \notin legTimers'
    ]_vars

\* the first call was completed by an event, the second was submitted after
\* it and has just been rejected by the expiry of its own timer
C31_Witness ==
  /\ stack = "HciCmd"
  /\ outcome[1].kind = "ok"
  /\ lastIn = << "timeout", 2 >>
  /\ settled = Some(<< 2, TimeoutError >>)
  /\ onResult = Null
  /\ timers = {}

\* C32: while the command packet is with the transport (control is inside
\* send) the closure of the call is in the slot and its timer is armed; a
\* CommandComplete for the command delivered from inside send settles the
\* call with the event's result (resolves it when the status is 0x00),
\* clears the slot and cancels the timer.
C32_ReentrantCompletion ==
  [][ /\ lastIn'[1] = "sending"
         => /\ onResult' # Null
            /\ onResult'[1].call = nCalls'
            /\ nCalls' \in timers'
            /\ sent' = << << HciCommand, BuildCommand(CommandOf(lastIn'[2]))[1] >> >>
      /\ ( /\ lastIn[1] = "sending"
           /\ lastIn'[1] = "reentrantData"
           /\ IsCommandComplete(lastIn'[2])
           /\ MatchesPending(CommandOf(lastIn[2]), lastIn'[2]) )
         => /\ settled' = Some(<< nCalls,
                                  IF PacketStatus(lastIn'[2]) = Success
                                  THEN Resolved(ResultOf(lastIn'[2]))
                                  ELSE Rejected(MakeHciError(PacketStatus(lastIn'[2]))) >>)
            /\ onResult' = Null
            /\ timers' = {}
    ]_vars

\* a Reset was resolved by the completion the transport delivered from
\* inside its send call
C32_Witness ==
  /\ lastIn = << "reentrantData", ResetCompletePacket >>
  /\ settled = Some(<< nCalls, Resolved(ResultOf(ResetCompletePacket)) >>)
  /\ onResult = Null
  /\ timers = {}

\* the states of a promise that has settled, and the ones the dispatcher
\* makes itself: success, a controller error, Busy, Timeout
HasSettled(o) == o \notin { NotCalled, Pending }
DispatcherOutcomes ==
  { Fulfilled, BusyError, TimeoutError } \cup { Rejected(MakeHciError(st)) : st \in 1 .. 255 }

\* the errors a failed transport write leaves in the promise
WriteFailures == { Rejected(RangeError), Rejected(TransportError) }

\* one step of a dispatcher, from the promises out to the promises next with
\* the settlement now handed to a caller: a settled call keeps its outcome
\* and is handed nothing more, a settlement handed out is the outcome of
\* its call, and every outcome is one of allowed
SettlesOnce(out, next, now, allowed) ==
  /\ \A i \in Calls :
       HasSettled(out[i]) => /\ next[i] = out[i]
                             /\ now # Null => now[1][1] # i
  /\ \A i \in Calls : HasSettled(next[i]) => next[i] \in allowed
  /\ now # Null => next[now[1][1]] = StateOf(now[1][2])

LacksHandle(cmd, data) ==
  /\ PacketOpcode(data) = cmd.opcode
  /\ IsCommandStatus(data) \/ Len(PacketParams(data)) < 2

\* C34: while a command that registered a connection handle is pending, an
\* event for its opcode without return parameters or with fewer than two
\* bytes of them settles nothing and leaves the slot, the timer and every
\* promise as they were; the pending call is settled only by a
\* CommandComplete for its opcode that begins with its handle, or by the
\* expiry of its timer.
C34_ShortCompletionIgnored ==
  [][ stack = "HciCmd" /\ onResult # Null /\ onResult[1].cmd.connHandle # Null
      => /\ (lastIn'[1] = "data" /\ LacksHandle(onResult[1].cmd, lastIn'[2]))
            => /\ settled' = Null
               /\ onResult' = onResult
               /\ timers' = timers
               /\ outcome' = outcome
         /\ (outcome[onResult[1].call] = Pending /\ settled' # Null
             /\ settled'[1][1] = onResult[1].call)
            => \/ lastIn' = << "timeout", onResult[1].call >>
               \/ /\ lastIn'[1] = "data"
                  /\ IsCommandComplete(lastIn'[2])
                  /\ Len(PacketParams(lastIn'[2])) >= 2
                  /\ MatchesPending(onResult[1].cmd, lastIn'[2])
    ]_vars

\* a CommandComplete carrying one byte of return parameters has just been
\* ignored by a pending LE Read Channel Map, whose timer is still armed
C34_Witness ==
  /\ stack = "HciCmd"
  /\ onResult # Null
  /\ onResult[1].cmd.connHandle # Null
  /\ outcome[onResult[1].call] = Pending
  /\ onResult[1].call \in timers
  /\ lastIn[1] = "data"
  /\ IsCommandComplete(lastIn[2])
  /\ PacketOpcode(lastIn[2]) = onResult[1].cmd.opcode
  /\ Len(PacketParams(lastIn[2])) = 1
  /\ settled = Null

\* the last step was a call of onData whose body raised an exception
BodyRaised == lastIn[1] = "data" /\ Raised(lastIn[3], lastIn[2], emitted) # Null

\* C35: Hci.onData returns to the transport whatever the packet type and
\* the bytes are, also when a decoder reads past the end of a truncated
\* payload or a subscriber throws; a call whose body raised an exception
\* leaves the slot, the timer and every promise as they were; and the
\* CommandComplete delivered after such a call still completes the pending
\* Reset.
C35_OnDataContainsExceptions ==
  [][ lastIn'[1] = "data"
      => /\ apiOut' = Some(Returns(Null))
         /\ Raised(lastIn'[3], lastIn'[2], emitted') # Null
            => /\ onResult' = onResult
               /\ timers' = timers
               /\ outcome' = outcome
               /\ settled' = Null
         /\ ( /\ BodyRaised
              /\ onResult # Null
              /\ onResult[1].cmd = HciReset
              /\ outcome[onResult[1].call] = Pending
              /\ lastIn'[3] = HciEvent
              /\ lastIn'[2] = ResetCompletePacket )
            => /\ settled' = Some(<< onResult[1].call, Resolved(ResultOf(ResetCompletePacket)) >>)
               /\ onResult' = Null
    ]_vars

\* while a command was pending a subscriber threw on the notification it
\* was handed, and onData returned to the transport
C35_Witness ==
  /\ SubscriberThrows
  /\ BodyRaised
  /\ emitted # << >>
  /\ onResult # Null
  /\ outcome[onResult[1].call] = Pending
  /\ apiOut = Some(Returns(Null))

\* C36: a framed DisconnectionComplete or EncryptionChange event is handed
\* to the subscribers exactly when its payload has 4 bytes; with any other
\* length nothing is emitted.
C36_OnlyFourBytePayloadDelivered ==
  [][ ( /\ stack = "HciCmd"
        /\ lastIn'[1] = "data"
        /\ IsFramed(lastIn'[2])
        /\ lastIn'[2][1] \in { EvtDisconnectionComplete, EvtEncryptionChange } )
      => (emitted' # << >> <=> lastIn'[2][2] = 4)
    ]_vars

\* C37: the legacy leSetScanEnable(enable, filterDuplicates) writes a
\* payload of 2 bytes, the first 1 exactly when enable is true and the
\* second 1 exactly when filterDuplicates is true, 0 otherwise.
C37_ScanEnableFlags ==
  (apiIn # Null /\ apiIn[1] = "leSetScanEnable" /\ lastIn = << "call" >>)
  => /\ Len(legSent) = 1
     /\ Len(legSent[1]) = 3 + 2
     /\ legSent[1][3] = 2
     /\ legSent[1][4] = (IF apiIn[2] THEN 1 ELSE 0)
     /\ legSent[1][5] = (IF apiIn[3] = Some(TRUE) THEN 1 ELSE 0)

\* C38: a call of sendAclData leaves the slot with the pending command and
\* its handle, the timers and every promise as they were, and is never
\* rejected with Busy; when the send function returns, the ACL packet
\* (header, data length, data) has been handed to it and the call resolves,
\* whether or not a command is pending.
C38_AclIndependentOfDispatcher ==
  [][ lastIn'[1] = "acl"
      => /\ onResult' = onResult
         /\ timers' = timers
         /\ outcome' = outcome
         /\ settled' = Null
         /\ apiOut' # Some(BusyError)
         /\ lastIn'[4] = "ok"
            => /\ sent' = << << HciAclData,
                                UInt16LE(lastIn'[2] + 4096 * lastIn'[3].boundary)
                                  \o UInt16LE(Len(lastIn'[3].data)) \o lastIn'[3].data >> >>
               /\ apiOut' = Some(Resolved(<< >>))
    ]_vars

\* ACL data has just been written while a command was pending
C38_Witness ==
  /\ lastIn[1] = "acl"
  /\ lastIn[4] = "ok"
  /\ onResult # Null
  /\ outcome[onResult[1].call] = Pending
  /\ onResult[1].call \in timers
  /\ Len(sent) = 1
  /\ sent[1][1] = HciAclData
  /\ apiOut = Some(Resolved(<< >>))

\* the event codes and the LE sub-event codes that Hci.onHciEvent and
\* Hci.onLeEvent have a case for
KnownEvents ==
  { EvtDisconnectionComplete, EvtEncryptionChange, EvtCommandComplete, EvtCommandStatus,
    EvtNumberOfCompletedPackets, EvtLeMeta }
KnownLeEvents ==
  { LeEvtConnectionComplete, LeEvtAdvertisingReport, LeEvtConnectionUpdateComplete,
    LeEvtReadRemoteFeaturesComplete, LeEvtEnhancedConnectionComplete,
    LeEvtExtendedAdvertisingReport, LeEvtChannelSelectionAlgorithm }
\* data, handed to onData with packetType, is a framed CommandComplete or
\* CommandStatus event
IsCommandEvent(packetType, data) ==
  /\ packetType = HciEvent
  /\ IsFramed(data)
  /\ data[1] \in { EvtCommandComplete, EvtCommandStatus }
\* data is a framed event with an unknown event code, or a framed LE Meta
\* event with an unknown sub-event code
IsUnknownEvent(data) ==
  /\ IsFramed(data)
  /\ \/ data[1] \notin KnownEvents
     \/ data[1] = EvtLeMeta /\ Len(data) >= 3 /\ data[3] \notin KnownLeEvents

\* C39: a packet handed to onData that is not a CommandComplete or
\* CommandStatus event (any other event, known or unknown, an ACL data or a
\* command packet) leaves the slot, the timers and the promises as they
\* were; an event with an unknown event code or an unknown LE sub-event
\* code is handed to no subscriber.
C39_OnlyCommandEventsTouchSlot ==
  [][ lastIn'[1] = "data"
      => /\ ~IsCommandEvent(lastIn'[3], lastIn'[2])
            => /\ onResult' = onResult
               /\ timers' = timers
               /\ outcome' = outcome
               /\ settled' = Null
         /\ (lastIn'[3] = HciEvent /\ IsUnknownEvent(lastIn'[2])) => emitted' = << >>
         /\ lastIn'[3] # HciEvent => emitted' = << >>
    ]_vars

\* an LE Meta event with the unknown sub-event 99 has just been dropped
\* while a command was pending
C39_Witness ==
  /\ lastIn = << "data", LeMetaPacket(99, << 0 >>), HciEvent >>
  /\ emitted = << >>
  /\ onResult # Null
  /\ outcome[onResult[1].call] = Pending
  /\ onResult[1].call \in timers

====
